---------------------------- MODULE Spec2Model ----------------------------
(***************************************************************************)
(* A model of the terminal front-end of the editor: the double-buffered    *)
(* cell renderer (src/src/render.rs), the Viewport and the Viewport        *)
(* Manager (src/src/viewport.rs), the menus (src/src/menu.rs), the         *)
(* dialogs (src/src/util.rs) and the main loop (src/src/main.rs).          *)
(*                                                                         *)
(* Each component has its own group of variables, its own initial          *)
(* predicate and its own specification; a specification leaves the         *)
(* groups of the other components at their idle value.                     *)
(***************************************************************************)
EXTENDS Integers, Naturals, Sequences, FiniteSets, TLC

VARIABLES
    \* RenderBuffer (render.rs)
    rb_front,      \* grids.0: what the terminal shows (row-major cells)
    rb_back,       \* grids.1: what is to be shown next
    rb_fg,         \* RenderBuffer.fg, the pen's foreground
    rb_bg,         \* RenderBuffer.bg, the pen's background
    rb_out,        \* what the operation just applied returned: render's instruction stream
    rb_emitted,    \* the positions at which that render pushed a character
    rb_rendered,   \* TRUE when the operation just applied was render
    rb_nsets,      \* number of set_cell calls so far (bounded)
    tty            \* the terminal render writes to: its display, cursor and colours

rbVars == <<rb_front, rb_back, rb_fg, rb_bg, rb_out, rb_emitted, rb_rendered, rb_nsets, tty>>

VARIABLES
    \* One Viewport over a buffer (viewport.rs)
    vp_origin,     \* Viewport.origin (x, y)
    vp_size,       \* Viewport.size (w, h)
    vp_svl,        \* Viewport.starting_visible_line
    vp_svc,        \* Viewport.starting_visible_column
    vp_line_count, \* the buffer's line count
    vp_cur,        \* the buffer's cursor (line, offset)
    vp_last        \* the last operation: "new", "cursor", "render_focused", "render_unfocused", "panic"

vpVars == <<vp_origin, vp_size, vp_svl, vp_svc, vp_line_count, vp_cur, vp_last>>

VARIABLES
    \* One Menu and a selection index moved by previous and next (menu.rs)
    mn_children,   \* Menu.children: the kind of each entry, in order
    mn_from,       \* the selection index handed to the last call
    mn_index,      \* the selection index
    mn_last        \* the last call: "none", "next", "previous"

mnVars == <<mn_children, mn_from, mn_index, mn_last>>

VARIABLES
    \* One call of util::input (util.rs)
    in_kind,       \* ty: "Any" or "Path"
    in_text,       \* entered_text
    in_disabled,   \* button_disabled
    in_pc,         \* "idle", "reading" (blocked in event::read), "returned"
    in_result,     \* the value returned: <<"None">> or <<"Some", text>>
    in_key         \* the last key event read

inVars == <<in_kind, in_text, in_disabled, in_pc, in_result, in_key>>

VARIABLES
    \* The ViewportManager and the main loop (viewport.rs, main.rs)
    viewports,       \* ViewportManager.viewports, in order
    focus_index,     \* ViewportManager.focus_index
    next_id,         \* how many Viewports have been created (identifies them)
    in_menu_mode,    \* main: in_menu_mode
    bar_selection_index, \* MenuBar.selection_index
    pc,              \* where the thread is: "idle", "api", "main_read", "take_over",
                     \* "alert", "input", "exited", "panicked"
    tk_stack,        \* the open take_over calls, outermost first: [menu, sel]
    ctx,             \* what called the open dialog: "none", "key", an Action
    last_action,     \* the Action whose handling ended in the last step, or "none"
    last_op,         \* the ViewportManager operation of the last step, or "none"
    owner,           \* the loop that read the last input event: "none" before the
                     \* first, "main_read", "take_over", "alert", "input"
    term_w,          \* the terminal's width
    argv_file,       \* TRUE when the editor was started with a file argument
    terminal         \* the terminal: [raw_mode, alternate_screen, cursor_shown]

mainVars == <<viewports, focus_index, next_id, in_menu_mode, bar_selection_index, pc,
              tk_stack, ctx, last_action, last_op, owner, term_w, argv_file, terminal>>

VARIABLES
    \* The call observed last, for the operations that return a value
    call_name,     \* the operation called, "none" before the first
    call_args,     \* its arguments, or the event it read
    call_result    \* what it returned

callVars == <<call_name, call_args, call_result>>

vars == <<rbVars, vpVars, mnVars, inVars, mainVars, callVars>>

\* What a step of one component leaves alone: the groups of the others.
RbFrame == UNCHANGED <<vpVars, mnVars, inVars, mainVars, callVars>>
VpFrame == UNCHANGED <<rbVars, mnVars, inVars, mainVars, callVars>>
MnFrame == UNCHANGED <<rbVars, vpVars, inVars, mainVars, callVars>>
InFrame == UNCHANGED <<rbVars, vpVars, mnVars, mainVars, callVars>>
VmFrame == UNCHANGED <<rbVars, vpVars, mnVars, inVars, callVars>>
MainFrame == UNCHANGED <<rbVars, vpVars, mnVars, callVars>>
\* A step that records the call it makes.
CallFrame == UNCHANGED <<rbVars, vpVars, mnVars, inVars, mainVars>>

-----------------------------------------------------------------------------
(* Bounds of the model *)

GridW == 2
GridH == 2
\* The events a dialog opened by Viewport::save reads at most
MaxSaveReads == 2
\* The gutter: the most lines of a buffer whose line numbers are drawn
MaxGutterLines == 10
\* The tab strip: the most Viewports open
MaxTabs == 4
\* Buffers of several lines: the most lines, the longest line
MaxBufLines == 3
MaxLineLen == 2
MaxSets == 2
\* Viewport: the largest terminal, the longest buffer, the rightmost cursor column
MaxTermW == 8
MaxTermH == 5
MaxLines == 4
MaxCol == 3
\* Menu: the longest list of children
MaxChildren == 5
\* Mnemonics: the longest menu and menu bar resolved against
MaxItems == 3
\* input dialog: the longest text typed
MaxInputLen == 3
\* ViewportManager: the Viewports created in a run, the longest buffer, the
\* largest focus_index that next_tab is taken from
MaxCreated == 3
\* main loop: the Viewports created in a run
MaxOpened == 2
MaxBufLen == 1
MaxFocus == 3

-----------------------------------------------------------------------------
(* render.rs: colours and cells *)

DEFAULT_FG == "White"
DEFAULT_BG == "Black"

\* The colours the pen is given in the model: a subset of enum Color.
FgColors == {"White", "Red"}
BgColors == {"Black", "Blue"}
\* The characters drawn in the model.
Chars == {"a"}

Cell(c, fg, bg) == <<c, fg, bg>>
DefaultCell == Cell(" ", DEFAULT_FG, DEFAULT_BG)

\* Grid::new: size.w * size.h default cells, row-major, indexed from 0.
GridNew(w, h) == [i \in 0..(w * h - 1) |-> DefaultCell]

\* Grid::idx_of: Some(w * y + x) inside the bounds, None (-1 here) outside.
idx_of(w, h, x, y) == IF x < w /\ y < h THEN w * y + x ELSE -1

\* Grid::get: the cell at pos, the default cell outside the bounds.
GridGet(g, w, h, x, y) ==
    LET idx == idx_of(w, h, x, y)
    IN  IF idx # -1 /\ idx \in DOMAIN g THEN g[idx] ELSE DefaultCell

\* Grid::set: writes the cell at pos, does nothing outside the bounds.
GridSet(g, w, h, x, y, cell) ==
    LET idx == idx_of(w, h, x, y)
    IN  IF idx # -1 /\ idx \in DOMAIN g THEN [g EXCEPT ![idx] = cell] ELSE g

\* Grid::get_mut: the cell at pos; panic!("Unable to get cell mutably: out of
\* bounds") outside the bounds.
GridGetMut(g, w, h, x, y) ==
    LET idx == idx_of(w, h, x, y)
    IN  IF idx # -1 /\ idx \in DOMAIN g THEN <<"cell", g[idx]>> ELSE <<"panic", DefaultCell>>

-----------------------------------------------------------------------------
(* render.rs: RenderBuffer::render_ansi *)

Goto(x, y) == [op |-> "goto", x |-> x, y |-> y]
SetFg(c)   == [op |-> "fg", c |-> c]
SetBg(c)   == [op |-> "bg", c |-> c]
Put(c)     == [op |-> "ch", c |-> c]

\* usize::saturating_sub
saturating_sub(a, b) == IF a >= b THEN a - b ELSE 0

\* `*front != back`: the derived PartialEq of Cell compares char, fg and bg.
CellDiffersCharOnly(front, back) == front[1] # back[1]
CellDiffers(front, back) == front # back

\* `*front = back`: the commit of one cell into the front grid.
CommitNothing(front, idx, back) == front
CommitCell(front, idx, back) == [front EXCEPT ![idx] = back]

\* The state the loops of render_ansi start from.
RenderStart(front) ==
    [out |-> <<>>, front |-> front, last_pos |-> <<1, 1>>,
     last_fg |-> DEFAULT_FG, last_bg |-> DEFAULT_BG, emitted |-> {}]

\* The body of the inner loop for the cell at (col, row).
RenderCell(st, back, w, h, col, row) ==
    LET idx == idx_of(w, h, col, row)
        f   == st.front[idx]
        b   == GridGet(back, w, h, col, row)
        o1  == IF st.last_pos # <<saturating_sub(col, 1), row>>
               THEN Append(st.out, Goto(col + 1, row + 1)) ELSE st.out
        o2  == IF st.last_fg # b[2] THEN Append(o1, SetFg(b[2])) ELSE o1
        o3  == IF st.last_bg # b[3] THEN Append(o2, SetBg(b[3])) ELSE o2
    IN  IF CellDiffers(f, b)
        THEN [out      |-> Append(o3, Put(b[1])),
              front    |-> CommitCell(st.front, idx, b),
              last_pos |-> <<col, row>>,
              last_fg  |-> b[2],
              last_bg  |-> b[3],
              emitted  |-> st.emitted \cup {<<col, row>>}]
        ELSE st

\* for row in 0..h { for col in 0..w { ... } }, the cells k..w*h-1 in row-major order.
RECURSIVE RenderLoop(_, _, _, _, _)
RenderLoop(st, back, w, h, k) ==
    IF k >= w * h THEN st
    ELSE RenderLoop(RenderCell(st, back, w, h, k % w, k \div w), back, w, h, k + 1)

render_ansi(front, back, w, h) == RenderLoop(RenderStart(front), back, w, h, 0)

-----------------------------------------------------------------------------
(* The terminal that reads render's instruction stream *)

\* A terminal: the cells it displays (row-major), its cursor (from 0) and the
\* colours it writes characters in.
TtyOf(display, cur, fg, bg) == [display |-> display, cur |-> cur, fg |-> fg, bg |-> bg]

\* The terminal when the stream alone is observed.
TtyUnobserved == TtyOf(GridNew(0, 0), <<0, 0>>, DEFAULT_FG, DEFAULT_BG)

\* One instruction on the terminal: Goto places the cursor (its arguments are
\* from 1), a colour instruction sets the colour of what is written next, a
\* character is written at the cursor in those colours and the cursor
\* advances one column; a character past the last column changes no cell.
TtyApply(t, ins, w, h) ==
    CASE ins.op = "goto" -> [t EXCEPT !.cur = <<ins.x - 1, ins.y - 1>>]
      [] ins.op = "fg"   -> [t EXCEPT !.fg = ins.c]
      [] ins.op = "bg"   -> [t EXCEPT !.bg = ins.c]
      [] ins.op = "ch"   ->
            [t EXCEPT !.display = GridSet(@, w, h, t.cur[1], t.cur[2], Cell(ins.c, t.fg, t.bg)),
                      !.cur = <<t.cur[1] + 1, t.cur[2]>>]

\* The terminal after the instructions of the stream, in order.
RECURSIVE Replay(_, _, _, _)
Replay(t, out, w, h) ==
    IF out = <<>> THEN t ELSE Replay(TtyApply(t, Head(out), w, h), Tail(out), w, h)

\* The colours the terminal writes each character of the stream in, in order.
RECURSIVE WrittenColours(_, _)
WrittenColours(t, out) ==
    IF out = <<>> THEN <<>>
    ELSE LET ins == Head(out)
             u   == TtyApply(t, ins, 0, 0)
         IN  IF ins.op = "ch" THEN <<<<t.fg, t.bg>>>> \o WrittenColours(u, Tail(out))
             ELSE WrittenColours(u, Tail(out))

-----------------------------------------------------------------------------
(* RenderBuffer: the operations *)

\* RenderBuffer::new
RbInit ==
    /\ rb_front = GridNew(GridW, GridH)
    /\ rb_back = GridNew(GridW, GridH)
    /\ rb_fg = DEFAULT_FG
    /\ rb_bg = DEFAULT_BG
    /\ rb_out = <<>>
    /\ rb_emitted = {}
    /\ rb_rendered = FALSE
    /\ rb_nsets = 0
    /\ tty = TtyUnobserved

\* An operation that returns no instruction stream.
RbReturnsNothing ==
    /\ rb_out' = <<>>
    /\ rb_emitted' = {}
    /\ rb_rendered' = FALSE
    /\ UNCHANGED tty

\* RenderBuffer::set_fg
set_fg(c) ==
    /\ rb_fg' = c
    /\ RbReturnsNothing
    /\ UNCHANGED <<rb_front, rb_back, rb_bg, rb_nsets>>

\* RenderBuffer::set_bg
set_bg(c) ==
    /\ rb_bg' = c
    /\ RbReturnsNothing
    /\ UNCHANGED <<rb_front, rb_back, rb_fg, rb_nsets>>

\* RenderBuffer::set_cell: positions one past the bounds are drawn too.
set_cell(x, y, ch) ==
    /\ rb_nsets < MaxSets
    /\ rb_back' = GridSet(rb_back, GridW, GridH, x, y, Cell(ch, rb_fg, rb_bg))
    /\ rb_nsets' = rb_nsets + 1
    /\ RbReturnsNothing
    /\ UNCHANGED <<rb_front, rb_fg, rb_bg>>

\* RenderBuffer::render (render_ansi, written to the terminal)
render ==
    LET r == render_ansi(rb_front, rb_back, GridW, GridH)
    IN  /\ rb_front' = r.front
        /\ rb_out' = r.out
        /\ rb_emitted' = r.emitted
        /\ rb_rendered' = TRUE
        /\ UNCHANGED <<rb_back, rb_fg, rb_bg, rb_nsets, tty>>

RbNext ==
    \/ \E c \in FgColors : set_fg(c) /\ RbFrame
    \/ \E c \in BgColors : set_bg(c) /\ RbFrame
    \/ \E x \in 0..GridW, y \in 0..GridH, ch \in Chars : set_cell(x, y, ch) /\ RbFrame
    \/ render /\ RbFrame

\* One Grid, the back grid of a RenderBuffer, addressed at positions inside
\* its bounds and one past them. A panic ends the program.
GridCells == {DefaultCell, Cell("a", DEFAULT_FG, DEFAULT_BG)}

GridInit ==
    /\ call_name = "none"
    /\ call_args = <<>>
    /\ call_result = <<"none", DefaultCell>>

\* grid.set(pos, cell)
GridSetCall(x, y, cell) ==
    /\ call_result[1] # "panic"
    /\ rb_back' = GridSet(rb_back, GridW, GridH, x, y, cell)
    /\ call_name' = "Grid::set"
    /\ call_args' = <<x, y>>
    /\ call_result' = <<"unit", DefaultCell>>

\* grid.get(pos)
GridGetCall(x, y) ==
    /\ call_result[1] # "panic"
    /\ rb_back' = rb_back
    /\ call_name' = "Grid::get"
    /\ call_args' = <<x, y>>
    /\ call_result' = <<"cell", GridGet(rb_back, GridW, GridH, x, y)>>

\* grid.get_mut(pos)
GridGetMutCall(x, y) ==
    /\ call_result[1] # "panic"
    /\ rb_back' = rb_back
    /\ call_name' = "Grid::get_mut"
    /\ call_args' = <<x, y>>
    /\ call_result' = GridGetMut(rb_back, GridW, GridH, x, y)

GridFrame ==
    UNCHANGED <<rb_front, rb_fg, rb_bg, rb_out, rb_emitted, rb_rendered, rb_nsets, tty,
                vpVars, mnVars, inVars, mainVars>>

GridNext ==
    \/ \E x \in 0..GridW, y \in 0..GridH, cell \in GridCells : GridSetCall(x, y, cell) /\ GridFrame
    \/ \E x \in 0..GridW, y \in 0..GridH : GridGetCall(x, y) /\ GridFrame
    \/ \E x \in 0..GridW, y \in 0..GridH : GridGetMutCall(x, y) /\ GridFrame

\* Vec::resize(new_len, value): the first new_len elements, value after them.
VecResize(v, new_len, value) ==
    [i \in 0..(new_len - 1) |-> IF i \in DOMAIN v THEN v[i] ELSE value]

\* Grid::resize
GridResize(g, new_size) ==
    [size  |-> new_size,
     cells |-> VecResize(g.cells, new_size[1] * new_size[2], DefaultCell)]

\* One Grid of any size up to GridW by GridH with any cells, and one resize of
\* it to a size up to one more in each direction.
GridsOfSize(w, h) == {[size |-> <<w, h>>, cells |-> c] : c \in [0..(w * h - 1) -> GridCells]}

ResizeInit ==
    /\ \E w \in 1..GridW, h \in 1..GridH : rb_back \in GridsOfSize(w, h)
    /\ rb_front = GridNew(GridW, GridH)
    /\ rb_fg = DEFAULT_FG
    /\ rb_bg = DEFAULT_BG
    /\ rb_out = <<>>
    /\ rb_emitted = {}
    /\ rb_rendered = FALSE
    /\ rb_nsets = 0
    /\ tty = TtyUnobserved
    /\ call_name = "none"
    /\ call_args = <<0, 0>>
    /\ call_result = [size |-> <<0, 0>>, cells |-> GridNew(0, 0)]

\* grid.resize(new_size); call_result keeps the grid as it was before.
GridResizeCall(w, h) ==
    /\ call_name = "none"
    /\ rb_back' = GridResize(rb_back, <<w, h>>)
    /\ call_name' = "Grid::resize"
    /\ call_args' = <<w, h>>
    /\ call_result' = rb_back

ResizeNext ==
    \E w \in 0..(GridW + 1), h \in 0..(GridH + 1) : GridResizeCall(w, h) /\ GridFrame

\* The positions at which the two grids hold different cells.
DiffPositions(front, back) ==
    {p \in (0..(GridW - 1)) \X (0..(GridH - 1)) :
        front[GridW * p[2] + p[1]] # back[GridW * p[2] + p[1]]}

\* The characters of an instruction stream, in order.
PutsOf(out) == SelectSeq(out, LAMBDA i : i.op = "ch")

\* A RenderBuffer one column wider, and the terminal it is rendered to. The
\* terminal shows the front grid when the program starts; its cursor is
\* wherever the shell left it.
TtyW == GridW + 1
TtyH == GridH

TtyInit ==
    /\ rb_front = GridNew(TtyW, TtyH)
    /\ rb_back = GridNew(TtyW, TtyH)
    /\ rb_fg = DEFAULT_FG
    /\ rb_bg = DEFAULT_BG
    /\ rb_out = <<>>
    /\ rb_emitted = {}
    /\ rb_rendered = FALSE
    /\ rb_nsets = 0
    /\ \E x \in 0..(TtyW - 1), y \in 0..(TtyH - 1) :
          tty = TtyOf(GridNew(TtyW, TtyH), <<x, y>>, DEFAULT_FG, DEFAULT_BG)

\* RenderBuffer::set_cell on the wider buffer
TtySetCell(x, y, ch) ==
    /\ rb_nsets < MaxSets
    /\ rb_back' = GridSet(rb_back, TtyW, TtyH, x, y, Cell(ch, rb_fg, rb_bg))
    /\ rb_nsets' = rb_nsets + 1
    /\ RbReturnsNothing
    /\ UNCHANGED <<rb_front, rb_fg, rb_bg>>

\* RenderBuffer::render: render_ansi, and the terminal reads what it returned.
TtyRender ==
    LET r == render_ansi(rb_front, rb_back, TtyW, TtyH)
    IN  /\ rb_front' = r.front
        /\ rb_out' = r.out
        /\ rb_emitted' = r.emitted
        /\ rb_rendered' = TRUE
        /\ tty' = Replay(tty, r.out, TtyW, TtyH)
        /\ UNCHANGED <<rb_back, rb_fg, rb_bg, rb_nsets>>

TtyNext ==
    \/ \E c \in FgColors : set_fg(c) /\ RbFrame
    \/ \E c \in BgColors : set_bg(c) /\ RbFrame
    \/ \E x \in 0..(TtyW - 1), y \in 0..(TtyH - 1), ch \in Chars : TtySetCell(x, y, ch) /\ RbFrame
    \/ TtyRender /\ RbFrame

\* The positions of a set in the order the loops of render_ansi visit them.
RECURSIVE RowMajor(_, _)
RowMajor(ps, w) ==
    IF ps = {} THEN <<>>
    ELSE LET p == CHOOSE q \in ps : \A r \in ps : w * q[2] + q[1] <= w * r[2] + r[1]
         IN  <<p>> \o RowMajor(ps \ {p}, w)

\* The emitted cells that do not follow, on their row, the cell emitted just
\* before them: the cells a cursor move is needed for.
NeedGoto(ps, w) ==
    LET sq == RowMajor(ps, w)
    IN  {i \in 1..Len(sq) : i = 1 \/ sq[i - 1] # <<sq[i][1] - 1, sq[i][2]>>}

GotosOf(out) == SelectSeq(out, LAMBDA i : i.op = "goto")

-----------------------------------------------------------------------------
(* viewport.rs: one Viewport, its scroll offsets and the buffer's cursor *)

\* main.rs: ViewportManager { origin: (0, 1), .. }
ManagerOrigin == <<0, 1>>

\* ViewportManager::new_viewport: the bounds of a new Viewport under a manager
\* whose size is the terminal's.
NewViewportOrigin == <<ManagerOrigin[1] + 1, ManagerOrigin[2] + 1>>
NewViewportSize(w, h) == <<w - 1, h - 2>>

\* `self.size.1 - self.origin.1 as usize`: the line budget of the reconciliation.
VerticalBudgetSum(size, origin) == size[2] + origin[2]
VerticalBudget(size, origin) == size[2] - origin[2]

\* `self.size.0 - 5 - self.origin.0 as usize`: the column budget.
HorizontalBudget(size, origin) == size[1] - 5 - origin[1]

\* The terminal sizes of the model: those on which the unsigned subtractions of
\* new_viewport and of the two budgets are defined.
TermSizes ==
    {t \in (1..MaxTermW) \X (1..MaxTermH) :
        /\ t[1] >= 1 /\ t[2] >= 2
        /\ VerticalBudget(NewViewportSize(t[1], t[2]), NewViewportOrigin) >= 0
        /\ HorizontalBudget(NewViewportSize(t[1], t[2]), NewViewportOrigin) >= 0}

ReconcileLineOneStep(svl, line, size, origin) ==
    IF line >= svl
    THEN IF line - svl > VerticalBudget(size, origin) THEN svl + 1 ELSE svl
    ELSE svl - 1

\* Viewport::render, the vertical reconciliation of starting_visible_line.
ReconcileLine(svl, line, size, origin) ==
    IF line >= svl
    THEN IF line - svl > VerticalBudget(size, origin)
         THEN svl + (line - (svl + VerticalBudget(size, origin)))
         ELSE svl
    ELSE svl - (svl - line)

\* Viewport::render, the horizontal reconciliation of starting_visible_column.
ReconcileColumn(svc, offset, size, origin) ==
    IF offset >= svc
    THEN IF offset - svc > HorizontalBudget(size, origin)
         THEN svc + (offset - (svc + HorizontalBudget(size, origin)))
         ELSE svc
    ELSE svc - (svc - offset)

\* lines(..).skip(starting_visible_line).take(size.1 - 1): how many lines the window holds.
WindowLen(svl, line_count, size) ==
    LET rest == IF line_count > svl THEN line_count - svl ELSE 0
    IN  IF rest < size[2] - 1 THEN rest ELSE size[2] - 1

\* `(i - self.starting_visible_line) as u16` for the window's lines i = 0, 1, ..:
\* the subtraction underflows for a line that is drawn when the offset is not 0.
RowMayUnderflow(svl, line_count, size) ==
    svl > 0 /\ WindowLen(svl, line_count, size) > 0

VpInit ==
    /\ \E t \in TermSizes : vp_size = NewViewportSize(t[1], t[2])
    /\ vp_origin = NewViewportOrigin
    /\ vp_svl \in 0..MaxLines
    /\ vp_svc \in 0..MaxCol
    /\ vp_line_count \in 1..MaxLines
    /\ vp_cur \in (0..(vp_line_count - 1)) \X (0..MaxCol)
    /\ vp_last = "new"

\* The buffer's cursor moves (ViewportManager::handle_key_event: Up, Down, Right, Left).
VpCursorMove(dl, dc) ==
    /\ vp_last # "panic"
    /\ vp_cur[1] + dl \in 0..(vp_line_count - 1)
    /\ vp_cur[2] + dc \in 0..MaxCol
    /\ vp_cur' = <<vp_cur[1] + dl, vp_cur[2] + dc>>
    /\ vp_last' = "cursor"
    /\ UNCHANGED <<vp_origin, vp_size, vp_svl, vp_svc, vp_line_count>>

\* Viewport::render(s, focused): the reconciliation, then the drawing of the window,
\* which ends in a panic where the row subtraction underflows in a checked build.
VpRender(focused) ==
    /\ vp_last # "panic"
    /\ vp_svl' = IF focused THEN ReconcileLine(vp_svl, vp_cur[1], vp_size, vp_origin) ELSE vp_svl
    /\ vp_svc' = IF focused THEN ReconcileColumn(vp_svc, vp_cur[2], vp_size, vp_origin) ELSE vp_svc
    /\ \/ vp_last' = IF focused THEN "render_focused" ELSE "render_unfocused"
       \/ /\ RowMayUnderflow(vp_svl', vp_line_count, vp_size)
          /\ vp_last' = "panic"
    /\ UNCHANGED <<vp_origin, vp_size, vp_line_count, vp_cur>>

VpNext ==
    \/ \E d \in {<<-1, 0>>, <<1, 0>>, <<0, -1>>, <<0, 1>>} : VpCursorMove(d[1], d[2]) /\ VpFrame
    \/ \E focused \in BOOLEAN : VpRender(focused) /\ VpFrame

\* The values of the two unsigned subtractions of the branch that scrolls up,
\* `svl - (svl - line)`: the inner one, then the outer one.
ScrollUpSubtractions(svl, line) == <<svl - line, svl - (svl - line)>>

\* The last buffer line of the window: the window is the size.1 - 1 lines from
\* starting_visible_line (viewport.rs:77).
BottomVisibleLine(svl, size) == svl + (size[2] - 1) - 1

\* The Viewport under cursor moves and render, each render recorded with the
\* offset and the cursor line it started from.
ReconcileInit ==
    /\ call_name = "none"
    /\ call_args = <<0, 0>>
    /\ call_result = <<0, 0>>

ReconcileMove(dl, dc) == VpCursorMove(dl, dc) /\ UNCHANGED callVars

ReconcileRender(focused) ==
    /\ VpRender(focused)
    /\ call_name' = "Viewport::render"
    /\ call_args' = <<vp_svl, vp_cur[1]>>
    /\ call_result' = IF focused THEN ScrollUpSubtractions(vp_svl, vp_cur[1]) ELSE <<0, 0>>

ReconcileFrame == UNCHANGED <<rbVars, mnVars, inVars, mainVars>>

ReconcileNext ==
    \/ \E d \in {<<-1, 0>>, <<1, 0>>, <<0, -1>>, <<0, 1>>} : ReconcileMove(d[1], d[2]) /\ ReconcileFrame
    \/ \E focused \in BOOLEAN : ReconcileRender(focused) /\ ReconcileFrame

\* usize::to_string().len(): the number of decimal digits.
RECURSIVE to_string_len(_)
to_string_len(n) == IF n < 10 THEN 1 ELSE 1 + to_string_len(n \div 10)

\* `let line_num_digits = lines.len().to_string().len();` (viewport.rs:80),
\* lines being the window.
line_num_digits(svl, line_count, size) == to_string_len(WindowLen(svl, line_count, size))

\* A Viewport over a buffer of up to MaxGutterLines lines, scrolled anywhere,
\* the cursor at the start of one of its lines.
GutterInit ==
    /\ \E t \in TermSizes : vp_size = NewViewportSize(t[1], t[2])
    /\ vp_origin = NewViewportOrigin
    /\ vp_svl \in 0..MaxGutterLines
    /\ vp_svc = 0
    /\ vp_line_count \in 1..MaxGutterLines
    /\ vp_cur \in (0..(vp_line_count - 1)) \X {0}
    /\ vp_last = "new"
    /\ call_name = "none"
    /\ call_args = <<0, 0>>
    /\ call_result = 0

\* Viewport::render: call_args is the offset after the reconciliation and the
\* number of lines of the window, call_result the gutter width computed.
GutterRender(focused) ==
    /\ VpRender(focused)
    /\ call_name' = "Viewport::render"
    /\ call_args' = <<vp_svl', WindowLen(vp_svl', vp_line_count, vp_size)>>
    /\ call_result' = line_num_digits(vp_svl', vp_line_count, vp_size)

GutterNext ==
    \/ \E dl \in {-1, 1} : ReconcileMove(dl, 0) /\ ReconcileFrame
    \/ \E focused \in BOOLEAN : GutterRender(focused) /\ ReconcileFrame

\* `self.origin.1 + (i - self.starting_visible_line) as u16` (viewport.rs:102)
\* in a build without overflow checks: the usize difference wraps, `as u16`
\* keeps its low 16 bits and the u16 sum wraps.
LineRow(origin, i, svl) == (origin[2] + ((i - svl) % 65536)) % 65536

\* The rows the lines of the window are drawn on, the i-th line of the window
\* (from 0) being element i + 1.
WindowRows(origin, svl, line_count, size) ==
    [k \in 1..WindowLen(svl, line_count, size) |-> LineRow(origin, k - 1, svl)]

RowsInit ==
    /\ call_name = "none"
    /\ call_args = <<0, 0>>
    /\ call_result = <<>>

\* Viewport::render: call_args is the offset after the reconciliation and the
\* number of lines of the window, call_result the rows the lines were drawn
\* on, none when the render ended in a panic.
RowsRender(focused) ==
    /\ VpRender(focused)
    /\ call_name' = "Viewport::render"
    /\ call_args' = <<vp_svl', WindowLen(vp_svl', vp_line_count, vp_size)>>
    /\ call_result' = IF vp_last' = "panic" THEN <<>>
                      ELSE WindowRows(vp_origin, vp_svl', vp_line_count, vp_size)

RowsNext ==
    \/ \E d \in {<<-1, 0>>, <<1, 0>>, <<0, -1>>, <<0, 1>>} : ReconcileMove(d[1], d[2]) /\ ReconcileFrame
    \/ \E focused \in BOOLEAN : RowsRender(focused) /\ ReconcileFrame

VerticalScrollPercentUnclamped(svl, size, lines) ==
    IF svl + size[2] = 0
    THEN {<<"panic", 0, 1>>, <<"ratio", 1, 1>>}
    ELSE {<<"ratio", svl + size[2] - 1, lines>>}

\* Viewport::vertical_scroll_percent (viewport.rs:141-150) on a buffer of the
\* given number of lines: the f32 as the ratio <<"ratio", n, d>>. With
\* starting_visible_line + size.1 = 0 the usize subtraction overflows: a
\* checked build panics, a wrapping one divides usize::MAX, which is 1.0
\* after flt_min.
vertical_scroll_percent(svl, size, lines) ==
    IF svl + size[2] = 0
    THEN {<<"panic", 0, 1>>, <<"ratio", 1, 1>>}
    ELSE IF lines > svl + size[2] - 1                   \* flt_min: 1.0 > b
    THEN {<<"ratio", svl + size[2] - 1, lines>>}
    ELSE {<<"ratio", 1, 1>>}

\* Viewports of every terminal on which new_viewport is defined, scrolled to
\* any line, over buffers of 1..MaxLines lines.
ScrollInit ==
    /\ \E t \in (1..MaxTermW) \X (2..MaxTermH) : vp_size = NewViewportSize(t[1], t[2])
    /\ vp_origin = NewViewportOrigin
    /\ vp_svl \in 0..MaxLines
    /\ vp_svc = 0
    /\ vp_line_count \in 1..MaxLines
    /\ vp_cur \in (0..(vp_line_count - 1)) \X {0}
    /\ vp_last = "new"
    /\ call_name = "none"
    /\ call_args = <<>>
    /\ call_result = <<>>

\* self.vertical_scroll_percent()
ScrollPercent ==
    /\ call_name' = "Viewport::vertical_scroll_percent"
    /\ call_args' = <<>>
    /\ call_result' \in vertical_scroll_percent(vp_svl, vp_size, vp_line_count)
    /\ UNCHANGED vpVars

ScrollNext == ScrollPercent /\ UNCHANGED <<rbVars, mnVars, inVars, mainVars>>

\* viewport.rs:270: flt_min((h - 1), flt_max(1.0, h * (h / line_count))) as
\* usize, the ratio taken exactly; the bounds are whole numbers, so the value
\* truncated is the bounded quotient.
scrollbar_height(size, lines) ==
    LET h == size[2]
        q == (h * h) \div lines
        m == IF 1 > q THEN 1 ELSE q                 \* flt_max(1.0, ..), truncated
    IN  IF h - 1 > m THEN m ELSE h - 1              \* flt_min(h - 1, ..), truncated

\* viewport.rs:271: v_origin.1 + (h * vertical_scroll_percent()) as u16 -
\* scrollbar_height as u16, in u16 from left to right; below zero it is a
\* panic in a build with overflow checks and wraps without them.
scrollbar_v_origin(origin, size, pct, height) ==
    LET r == origin[2] + ((size[2] * pct[2]) \div pct[3]) - height
    IN  IF r >= 0 THEN {[panic |-> FALSE, row |-> r]}
        ELSE {[panic |-> TRUE, row |-> 0], [panic |-> FALSE, row |-> r % 65536]}

\* The focused Viewport of a ViewportManager: at least 2 rows high, scrolled
\* to any line, over buffers of 1..MaxLines lines.
ScrollbarInit ==
    /\ \E t \in (1..MaxTermW) \X (4..(MaxTermH + 1)) : vp_size = NewViewportSize(t[1], t[2])
    /\ vp_origin = NewViewportOrigin
    /\ vp_svl \in 0..MaxLines
    /\ vp_svc = 0
    /\ vp_line_count \in 1..MaxLines
    /\ vp_cur \in (0..(vp_line_count - 1)) \X {0}
    /\ vp_last = "new"
    /\ call_name = "none"
    /\ call_args = <<>>
    /\ call_result = [panic |-> FALSE, height |-> 0, row |-> 0]

\* ViewportManager::render, the scrollbar (viewport.rs:268-274): call_result
\* is the height of the thumb and the row of its first character.
ScrollbarRender ==
    /\ call_name = "none"
    /\ call_name' = "ViewportManager::render"
    /\ call_args' = <<>>
    /\ \E pct \in vertical_scroll_percent(vp_svl, vp_size, vp_line_count) :
       \E o \in scrollbar_v_origin(vp_origin, vp_size, pct,
                                    scrollbar_height(vp_size, vp_line_count)) :
          call_result' = [panic |-> o.panic, row |-> o.row,
                          height |-> scrollbar_height(vp_size, vp_line_count)]
    /\ UNCHANGED vpVars

ScrollbarNext == ScrollbarRender /\ UNCHANGED <<rbVars, mnVars, inVars, mainVars>>

-----------------------------------------------------------------------------
(* menu.rs: Menu::previous and Menu::next *)

MenuKinds == {"Separator", "Action", "SubMenu"}

\* children[i] of the source is children[i + 1] here.
IsSeparator(children, i) == children[i + 1] = "Separator"

NextNoSkip(children, selection_index) ==
    IF selection_index + 1 >= Len(children) THEN 0 ELSE selection_index + 1

\* Menu::next
RECURSIVE next(_, _)
next(children, selection_index) ==
    LET s == IF selection_index + 1 >= Len(children) THEN 0 ELSE selection_index + 1
    IN  IF IsSeparator(children, s) THEN next(children, s) ELSE s

\* Menu::previous
RECURSIVE previous(_, _)
previous(children, selection_index) ==
    LET s == IF selection_index - 1 < 0 THEN Len(children) - 1 ELSE selection_index - 1
    IN  IF IsSeparator(children, s) THEN previous(children, s) ELSE s

\* The menus of the model: every list of 1..MaxChildren entries with an entry
\* that is no separator.
MenuShapes ==
    {c \in UNION {[1..n -> MenuKinds] : n \in 1..MaxChildren} :
        \E i \in 1..Len(c) : c[i] # "Separator"}

MnInit ==
    /\ mn_children \in MenuShapes
    /\ mn_index \in 0..(Len(mn_children) - 1)
    /\ mn_from = mn_index
    /\ mn_last = "none"

\* take_over, Down: selection_index = self.next(selection_index)
MenuDown ==
    /\ mn_index' = next(mn_children, mn_index)
    /\ mn_from' = mn_index
    /\ mn_last' = "next"
    /\ UNCHANGED mn_children

\* take_over, Up: selection_index = self.previous(selection_index)
MenuUp ==
    /\ mn_index' = previous(mn_children, mn_index)
    /\ mn_from' = mn_index
    /\ mn_last' = "previous"
    /\ UNCHANGED mn_children

MnNext ==
    \/ MenuDown /\ MnFrame
    \/ MenuUp /\ MnFrame

\* Menu::take_over on a menu of any shape with a child that is no separator,
\* under Up, Down and Enter: `let mut selection_index = 0usize` (menu.rs:171),
\* then the loop. mn_last is "opened" at the first read, "returned" after
\* Enter on an action, "submenu" after Enter on a sub-menu whose take-over gave
\* the thread back, "panic" after Enter on a separator (unreachable!()).
SelectionInit ==
    /\ mn_children \in MenuShapes
    /\ mn_index = 0
    /\ mn_from = 0
    /\ mn_last = "opened"

AtRead == mn_last # "returned" /\ mn_last # "panic"

\* take_over reads Enter (menu.rs:183-189)
SelectionEnter ==
    /\ AtRead
    /\ mn_last' = IF IsSeparator(mn_children, mn_index) THEN "panic"
                  ELSE IF mn_children[mn_index + 1] = "Action" THEN "returned"
                  ELSE "submenu"
    /\ mn_from' = mn_index
    /\ UNCHANGED <<mn_children, mn_index>>

SelectionNext ==
    \/ AtRead /\ MenuDown /\ MnFrame
    \/ AtRead /\ MenuUp /\ MnFrame
    \/ SelectionEnter /\ MnFrame

\* Menu::next and Menu::previous call by call. mn_last is "in_next" or
\* "in_previous" while the thread is inside the function, mn_index then being
\* the argument of the innermost call; it is "next" or "previous" once the
\* function returned to take_over, which renders and reads the next event.
SkipMenus == UNION {[1..n -> MenuKinds] : n \in 1..MaxChildren}

SkipInit ==
    /\ mn_children \in SkipMenus
    /\ mn_index \in 0..(Len(mn_children) - 1)
    /\ mn_from = mn_index
    /\ mn_last = "none"

InSkip == mn_last = "in_next" \/ mn_last = "in_previous"

\* take_over reads Down and calls self.next(selection_index)
SkipKeyDown ==
    /\ ~InSkip
    /\ mn_last' = "in_next"
    /\ mn_from' = mn_index
    /\ UNCHANGED <<mn_children, mn_index>>

\* take_over reads Up and calls self.previous(selection_index)
SkipKeyUp ==
    /\ ~InSkip
    /\ mn_last' = "in_previous"
    /\ mn_from' = mn_index
    /\ UNCHANGED <<mn_children, mn_index>>

NextStepKeepsIndex ==
    /\ mn_last = "in_next"
    /\ LET s == NextNoSkip(mn_children, mn_index)
       IN  IF IsSeparator(mn_children, s)
           THEN mn_index' = mn_index /\ mn_last' = "in_next"
           ELSE mn_index' = s /\ mn_last' = "next"
    /\ UNCHANGED <<mn_children, mn_from>>

\* One call of Menu::next: the wrapped step, then the recursive call on a
\* separator or the return.
NextStep ==
    /\ mn_last = "in_next"
    /\ LET s == NextNoSkip(mn_children, mn_index)
       IN  IF IsSeparator(mn_children, s)
           THEN mn_index' = s /\ mn_last' = "in_next"
           ELSE mn_index' = s /\ mn_last' = "next"
    /\ UNCHANGED <<mn_children, mn_from>>

\* One call of Menu::previous
PreviousStep ==
    /\ mn_last = "in_previous"
    /\ LET s == IF mn_index - 1 < 0 THEN Len(mn_children) - 1 ELSE mn_index - 1
       IN  IF IsSeparator(mn_children, s)
           THEN mn_index' = s /\ mn_last' = "in_previous"
           ELSE mn_index' = s /\ mn_last' = "previous"
    /\ UNCHANGED <<mn_children, mn_from>>

SkipNext ==
    \/ SkipKeyDown /\ MnFrame
    \/ SkipKeyUp /\ MnFrame
    \/ NextStep /\ MnFrame
    \/ PreviousStep /\ MnFrame

-----------------------------------------------------------------------------
(* util.rs: input, the text-input dialog *)

\* Key events (crossterm KeyCode). input and alert take KeyCode::Char('\n') as
\* the confirm key.
Char(c) == <<"Char", c>>
ConfirmKey == Char("\n")
CtrlQ == <<"Char", "q", "CONTROL">>
EscKey == <<"Esc">>
BackspaceKey == <<"Backspace">>
TabKey == <<"Tab">>
EnterKey == <<"Enter">>
DeleteKey == <<"Delete">>
UpKey == <<"Up">>
DownKey == <<"Down">>
LeftKey == <<"Left">>
RightKey == <<"Right">>
\* An event that is no key event (a resize, the mouse).
OtherEvent == <<"Other">>

\* The characters typed into a dialog in the model.
InputChars == {"/", "a"}
InputKeys == {Char(c) : c \in InputChars} \cup {ConfirmKey, EscKey, BackspaceKey, TabKey}

\* The file system of the model: the root and the working directory, written
\* "/", "//", ".", "./", .., and one regular file, /a.
ExistingFiles == {<<"/", "a">>}
IsDirPath(p) ==
    \/ p = <<".">>
    \/ /\ p # <<>>
       /\ p[Len(p)] = "/"
       /\ \A i \in 1..Len(p) : p[i] = "/" \/ (i = 1 /\ p[i] = ".")

\* Path::is_file
PathIsFile(text) == text \in ExistingFiles

\* PathBuf::from(&entered_text).exists()
PathExists(text) == PathIsFile(text) \/ IsDirPath(text)

\* Whether File::create(path) succeeds: the path names no directory, and what
\* precedes its file name is empty or names a directory.
CanCreate(p) ==
    /\ p # <<>>
    /\ ~IsDirPath(p)
    /\ p[Len(p)] # "/"
    /\ LET cut == IF \E i \in 1..Len(p) : p[i] = "/"
                  THEN CHOOSE i \in 1..Len(p) : p[i] = "/" /\ \A j \in (i + 1)..Len(p) : p[j] # "/"
                  ELSE 0
       IN  cut = 0 \/ IsDirPath(SubSeq(p, 1, cut))

\* let button_disabled = match ty { Any => false, Path => !..exists() }
ButtonDisabled(ty, text) ==
    IF ty = "Any" THEN FALSE ELSE ~PathExists(text)

None == <<"None">>
Some(v) == <<"Some", v>>

\* The texts input is called with in the model.
InitialTexts == UNION {[1..n -> InputChars] : n \in 0..2}

\* input(s, title, initial_input, ty) up to its first read: entered_text is the
\* initial text and button_disabled is computed in the one pass of 'mainloop
\* that precedes the inner read loop.
InputCall(initial_input, ty) ==
    /\ in_kind = ty
    /\ in_text = initial_input
    /\ in_disabled = ButtonDisabled(ty, initial_input)
    /\ in_pc = "reading"
    /\ in_result = None
    /\ in_key = <<"none">>

InInit == \E t \in InitialTexts, ty \in {"Any", "Path"} : InputCall(t, ty)

\* One pass of the inner `loop { match event::read() .. }` on key k: the text,
\* whether input returns, and what it returns. No arm leaves the inner loop for
\* 'mainloop, so button_disabled is the one computed at the call.
input_on_key(text, disabled, k) ==
    IF k = ConfirmKey /\ ~disabled
    THEN [text |-> text, returned |-> TRUE, result |-> Some(text)]   \* return Some(entered_text)
    ELSE IF k = EscKey
    THEN [text |-> text, returned |-> TRUE, result |-> None]         \* break 'mainloop
    ELSE IF k[1] = "Char"
    THEN [text |-> Append(text, k[2]), returned |-> FALSE, result |-> None]   \* push(c)
    ELSE IF k = BackspaceKey /\ text # <<>>
    THEN [text |-> SubSeq(text, 1, Len(text) - 1), returned |-> FALSE, result |-> None]  \* pop()
    ELSE [text |-> text, returned |-> FALSE, result |-> None]        \* continue

\* The keys read in the model: a character is typed only below MaxInputLen.
InputKeyOffered(text, disabled, k) ==
    (k[1] = "Char" /\ ~(k = ConfirmKey /\ ~disabled)) => Len(text) < MaxInputLen

InputKey(k) ==
    LET r == input_on_key(in_text, in_disabled, k)
    IN  /\ in_pc = "reading"
        /\ InputKeyOffered(in_text, in_disabled, k)
        /\ in_key' = k
        /\ in_text' = r.text
        /\ in_pc' = IF r.returned THEN "returned" ELSE "reading"
        /\ in_result' = r.result
        /\ UNCHANGED <<in_kind, in_disabled>>

InNext == \E k \in InputKeys : InputKey(k) /\ InFrame

-----------------------------------------------------------------------------
(* menu.rs: names, mnemonics, the menu bar; main.rs: the menus of the editor *)

UpperCase == <<"A", "E", "F", "H", "N", "O", "Q", "R", "S", "U">>
LowerCase == <<"a", "e", "f", "h", "n", "o", "q", "r", "s", "u">>

ToLowercaseIdentity(c) == c
\* char::to_lowercase().next().unwrap(), on the letters of the model
to_lowercase(c) ==
    IF \E i \in 1..Len(UpperCase) : UpperCase[i] = c
    THEN LowerCase[CHOOSE i \in 1..Len(UpperCase) : UpperCase[i] = c]
    ELSE c

\* get_menu_shortcut_from_name: the character after the first '_'; "PANIC" when
\* the name has no '_' or ends with it.
get_menu_shortcut_from_name(name) ==
    IF \E i \in 1..Len(name) : name[i] = "_"
    THEN LET i == CHOOSE i \in 1..Len(name) :
                      name[i] = "_" /\ \A j \in 1..(i - 1) : name[j] # "_"
         IN  IF i < Len(name) THEN name[i + 1] ELSE "PANIC"
    ELSE "PANIC"

Item(name, kind, action) == [name |-> name, kind |-> kind, action |-> action]
SeparatorItem == Item(<<>>, "Separator", "none")

\* main.rs: the File, Edit and Help menus.
FileMenu ==
    [name |-> <<"_", "F", "i", "l", "e">>,
     children |-> <<
        Item(<<"_", "N", "e", "w">>, "Action", "New"),
        Item(<<"_", "O", "p", "e", "n">>, "Action", "Open"),
        SeparatorItem,
        Item(<<"_", "S", "a", "v", "e">>, "Action", "Save"),
        Item(<<"S", "a", "v", "e", " ", "_", "a", "s", " ", ".", ".", ".">>, "Action", "SaveAs"),
        SeparatorItem,
        Item(<<"_", "Q", "u", "i", "t">>, "Action", "Close") >>]
EditMenu ==
    [name |-> <<"_", "E", "d", "i", "t">>,
     children |-> <<
        Item(<<"_", "U", "n", "d", "o">>, "Action", "Undo"),
        Item(<<"_", "R", "e", "d", "o">>, "Action", "Redo") >>]
HelpMenu ==
    [name |-> <<"_", "H", "e", "l", "p">>,
     children |-> << Item(<<"_", "A", "b", "o", "u", "t">>, "Action", "About") >>]

\* MenuBar { selection_index: 0, menus: vec!(file, edit, help) }
MenuBarMenus == <<FileMenu, EditMenu, HelpMenu>>

\* The kinds of a menu's children, as Menu::previous and Menu::next read them.
KindsOf(menu) == [i \in 1..Len(menu.children) |-> menu.children[i].kind]

\* The first index in 0..Len(names)-1, among those allowed, whose shortcut is
\* key ignoring case: -1 when there is none, -2 when a name scanned before a
\* match has no shortcut (a panic).
RECURSIVE FirstShortcut(_, _, _, _)
FirstShortcut(names, allowed, key, i) ==
    IF i >= Len(names) THEN -1
    ELSE IF i \notin allowed THEN FirstShortcut(names, allowed, key, i + 1)
    ELSE IF get_menu_shortcut_from_name(names[i + 1]) = "PANIC" THEN -2
    ELSE IF to_lowercase(get_menu_shortcut_from_name(names[i + 1])) = to_lowercase(key) THEN i
    ELSE FirstShortcut(names, allowed, key, i + 1)

\* MenuBar::maybe_handle_key_press on a character key.
MenuBarShortcut(menus, key) ==
    FirstShortcut([i \in 1..Len(menus) |-> menus[i].name], 0..(Len(menus) - 1), key, 0)

\* Menu::maybe_handle_key_press: separators are skipped.
MenuShortcut(menu, key) ==
    FirstShortcut([i \in 1..Len(menu.children) |-> menu.children[i].name],
                  {i \in 0..(Len(menu.children) - 1) : menu.children[i + 1].kind # "Separator"},
                  key, 0)

-----------------------------------------------------------------------------
(* menu.rs: mnemonic resolution on menus and menu bars of any content *)

\* The entries resolved against: names with the marker first or inside, in
\* either case, on actions and on separators, and the separator of main.rs.
MnemonicItems ==
    {Item(<<"_", "N">>, "Action", "New"),
     Item(<<"_", "n">>, "Action", "Open"),
     Item(<<"S", "_", "a">>, "Action", "SaveAs"),
     Item(<<"_", "N">>, "Separator", "none"),
     SeparatorItem}
MnemonicMenus ==
    {[name |-> <<"_", "F">>, children |-> c] :
        c \in UNION {[1..n -> MnemonicItems] : n \in 1..MaxItems}}
\* Menu bars, as the list of their menus: every top-level name has a marker.
MnemonicBars ==
    {[name |-> <<>>, children |-> c] :
        c \in UNION {[1..n -> {Item(nm, "SubMenu", "none") :
                                  nm \in {<<"_", "N">>, <<"_", "n">>, <<"S", "_", "a">>}}]
                     : n \in 1..MaxItems}}
MnemonicKeys == {"n", "N", "a", "A", "x", "_"}

\* The calls of the model, before they are made: what is resolved against,
\* the key, and whether it is a menu or a menu bar.
MnemonicCalls ==
    {<<menu, key, "menu">> : menu \in MnemonicMenus, key \in MnemonicKeys} \cup
    {<<bar, key, "bar">> : bar \in MnemonicBars, key \in MnemonicKeys}
MnemonicInit ==
    /\ call_name = "none"
    /\ call_args \in MnemonicCalls
    /\ call_result = <<>>

\* Menu::maybe_handle_key_press(key)
ResolveInMenu ==
    /\ call_name = "none"
    /\ call_args[3] = "menu"
    /\ call_name' = "Menu::maybe_handle_key_press"
    /\ call_result' = MenuShortcut(call_args[1], call_args[2])
    /\ UNCHANGED call_args

\* MenuBar::maybe_handle_key_press(KeyCode::Char(key)): the index returned
ResolveOnBar ==
    /\ call_name = "none"
    /\ call_args[3] = "bar"
    /\ call_name' = "MenuBar::maybe_handle_key_press"
    /\ call_result' = MenuBarShortcut(call_args[1].children, call_args[2])
    /\ UNCHANGED call_args

MnemonicNext ==
    \/ ResolveInMenu /\ CallFrame
    \/ ResolveOnBar /\ CallFrame

-----------------------------------------------------------------------------
(* viewport.rs: the ViewportManager *)

UntitledTitle == <<"U", "n", "t", "i", "t", "l", "e", "d">>
\* The file the editor is started with in the model, and its name.
ArgFileTitle == <<"a">>

\* A Viewport over a buffer. The buffer's text is kept as its length and the
\* cursor as its offset; path says whether the buffer has a path.
ViewportOf(id, title, len, path) ==
    [id |-> id, title |-> title, len |-> len, cur |-> 0, modified |-> FALSE, path |-> path]

\* scribe::Buffer::new(): empty, unmodified, no path; its Viewport is "Untitled".
NewBufferViewport(id) == ViewportOf(id, UntitledTitle, 0, FALSE)
\* scribe::Buffer::from_file(argv[1]): the file's text, its file name as title.
FileBufferViewport(id, len) == ViewportOf(id, ArgFileTitle, len, TRUE)

\* ViewportManager::new_viewport: the Viewport is pushed, focus_index is not touched.
new_viewport(vs, v) == Append(vs, v)

RemoveAt(vs, i) == SubSeq(vs, 1, i) \o SubSeq(vs, i + 2, Len(vs))

\* ViewportManager::close_focused_viewport. Vec::remove panics on an index
\* that is not below the length.
CloseRemovesFirst(vs, focus) ==
    IF vs = <<>> THEN [viewports |-> vs, focus_index |-> focus, panic |-> FALSE]
    ELSE [viewports |-> Tail(vs),
          focus_index |-> IF focus > 0 THEN focus - 1 ELSE focus,
          panic |-> FALSE]
close_focused_viewport(vs, focus) ==
    IF vs = <<>> THEN [viewports |-> vs, focus_index |-> focus, panic |-> FALSE]
    ELSE IF focus >= Len(vs) THEN [viewports |-> vs, focus_index |-> focus, panic |-> TRUE]
    ELSE [viewports |-> RemoveAt(vs, focus),
          focus_index |-> IF focus > 0 THEN focus - 1 ELSE focus,
          panic |-> FALSE]

NextTabNoWrap(vs, focus) ==
    IF vs = <<>>
    THEN {[focus_index |-> focus, panic |-> TRUE],
          [focus_index |-> focus + 1, panic |-> FALSE]}
    ELSE {[focus_index |-> focus + 1, panic |-> FALSE]}

\* ViewportManager::next_tab: the outcomes. `self.viewports.len() - 1` underflows
\* on an empty list: a panic in a checked build, usize::MAX in a wrapping one,
\* where focus_index, being smaller, is incremented.
next_tab(vs, focus) ==
    IF vs = <<>>
    THEN {[focus_index |-> focus, panic |-> TRUE],
          [focus_index |-> focus + 1, panic |-> FALSE]}
    ELSE {[focus_index |-> IF focus >= Len(vs) - 1 THEN 0 ELSE focus + 1, panic |-> FALSE]}

\* ViewportManager::render, the titles: a '*' before the title of a modified buffer.
TitleLen(v) == Len(v.title) + (IF v.modified THEN 1 ELSE 0)
RECURSIVE TitlesLen(_)
TitlesLen(vs) == IF vs = <<>> THEN 0 ELSE TitleLen(Head(vs)) + TitlesLen(Tail(vs))
TotalLen(vs) == Len(vs) * 3 + TitlesLen(vs)

\* ViewportManager::render: how the pass can end. Nothing is drawn for an empty
\* list; viewports[focus_index] panics out of range; v_size.0/2 - total_len/2
\* underflows when the titles are wider than the Viewport, a panic in a checked
\* build.
RenderOutcomes(vs, focus, w) ==
    IF vs = <<>> THEN {"ok"}
    ELSE IF focus >= Len(vs) THEN {"panic"}
    ELSE IF (NewViewportSize(w, 0)[1] \div 2) < (TotalLen(vs) \div 2) THEN {"ok", "panic"}
    ELSE {"ok"}

-----------------------------------------------------------------------------
(* viewport.rs: the editing keys of the focused Viewport *)

\* Viewport::insert: the character goes in at the cursor, which moves right.
insert(v) == [v EXCEPT !.len = @ + 1, !.cur = @ + 1, !.modified = TRUE]

\* scribe's Buffer::delete at offset cur: a character is removed when there is
\* one at the cursor; when there is none the text is the same and the modified
\* flag is whatever the buffer keeps for an empty deletion.
buffer_delete(v) ==
    IF v.cur < v.len
    THEN {[v EXCEPT !.len = @ - 1, !.modified = TRUE]}
    ELSE {v, [v EXCEPT !.modified = TRUE]}

\* Viewport::backspace: the cursor moves left when it can, and buffer.delete()
\* is called whether it moved or not.
backspace(v) ==
    IF v.cur > 0 THEN buffer_delete([v EXCEPT !.cur = @ - 1]) ELSE buffer_delete(v)

\* Viewport::delete
delete(v) == buffer_delete(v)

\* cursor.move_left, cursor.move_right; the one line of the model has no line
\* above or below, so move_up and move_down leave the cursor.
move_left(v) == IF v.cur > 0 THEN [v EXCEPT !.cur = @ - 1] ELSE v
move_right(v) == IF v.cur < v.len THEN [v EXCEPT !.cur = @ + 1] ELSE v

-----------------------------------------------------------------------------
(* viewport.rs: Viewport::backspace on a buffer of several lines. The buffer *)
(* is scribe's: its lines, its cursor (line, offset), both from 0, and the   *)
(* number of deletions requested of it.                                     *)

BufferOf(lines, line, offset) ==
    [lines |-> lines, line |-> line, offset |-> offset, deletes |-> 0]

\* The position is in scribe's bounds: a line of the buffer, an offset up to
\* the end of that line.
InBounds(b, line, offset) ==
    /\ line >= 0 /\ line < Len(b.lines)
    /\ offset >= 0 /\ offset <= Len(b.lines[line + 1])

\* cursor.move_to(position): the cursor moves to a position in bounds only.
cursor_move_to(b, line, offset) ==
    IF InBounds(b, line, offset) THEN [b EXCEPT !.line = line, !.offset = offset] ELSE b

\* cursor.move_to_end_of_line()
cursor_move_to_end_of_line(b) == [b EXCEPT !.offset = Len(b.lines[b.line + 1])]

\* cursor.move_up(): to the line above, at the same offset or at the end of
\* that line when it is shorter.
cursor_move_up(b) ==
    IF b.line = 0 THEN b
    ELSE IF InBounds(b, b.line - 1, b.offset) THEN [b EXCEPT !.line = @ - 1]
    ELSE cursor_move_to_end_of_line([b EXCEPT !.line = @ - 1])

\* The sequence without its element i.
RemoveChar(line, i) == SubSeq(line, 1, i - 1) \o SubSeq(line, i + 1, Len(line))

\* buffer.delete(): the character at the cursor is removed; at the end of a
\* line it is the line break, and the next line is joined to this one; at the
\* end of the buffer there is nothing to remove.
BufferDelete(b) ==
    LET l  == b.line + 1
        ln == b.lines[l]
    IN  IF b.offset < Len(ln)
        THEN [b EXCEPT !.lines[l] = RemoveChar(ln, b.offset + 1), !.deletes = @ + 1]
        ELSE IF l < Len(b.lines)
        THEN [b EXCEPT !.lines = SubSeq(@, 1, l - 1) \o <<ln \o b.lines[l + 1]>>
                                 \o SubSeq(@, l + 2, Len(@)),
                       !.deletes = @ + 1]
        ELSE [b EXCEPT !.deletes = @ + 1]

ViewportBackspaceStaysAtLineStart(b) ==
    BufferDelete(IF b.offset > 0
                 THEN cursor_move_to(b, b.line, b.offset - 1)
                 ELSE IF b.line > 0 THEN [b EXCEPT !.line = @ - 1, !.offset = 0]
                 ELSE b)

\* Viewport::backspace (viewport.rs:169-192)
ViewportBackspace(b) ==
    BufferDelete(IF b.offset > 0
                 THEN cursor_move_to(b, b.line, b.offset - 1)
                 ELSE IF b.line > 0 THEN cursor_move_to_end_of_line(cursor_move_up(b))
                 ELSE b)

\* The buffers of the model and their cursors.
BufferLines == UNION {[1..n -> {"a", "b"}] : n \in 0..MaxLineLen}
Buffers ==
    {b \in [lines : UNION {[1..n -> BufferLines] : n \in 1..MaxBufLines},
            line : 0..(MaxBufLines - 1), offset : 0..MaxLineLen, deletes : {0}] :
        InBounds(b, b.line, b.offset)}

BackspaceInit ==
    /\ call_name = "none"
    /\ \E b \in Buffers : call_args = b
    /\ call_result = BufferOf(<<>>, 0, 0)

\* viewport.backspace() on the buffer drawn: what the buffer is afterwards.
BackspaceCall ==
    /\ call_name = "none"
    /\ call_name' = "Viewport::backspace"
    /\ call_result' = ViewportBackspace(call_args)
    /\ UNCHANGED call_args

BackspaceNext == BackspaceCall /\ CallFrame

-----------------------------------------------------------------------------
(* viewport.rs: the ViewportManager under its operations alone *)

VmNewViewport ==
    /\ pc = "api"
    /\ next_id < MaxCreated
    /\ \E v \in {NewBufferViewport(next_id)} \cup
                {FileBufferViewport(next_id, n) : n \in 0..MaxBufLen} :
          viewports' = new_viewport(viewports, v)
    /\ next_id' = next_id + 1
    /\ last_op' = "new_viewport"
    /\ UNCHANGED <<focus_index, pc>>

\* main.rs:139, focus_index = viewports.len() - 1 after a new_viewport
VmFocusLast ==
    /\ pc = "api"
    /\ viewports # <<>>
    /\ focus_index' = Len(viewports) - 1
    /\ last_op' = "focus_last"
    /\ UNCHANGED <<viewports, next_id, pc>>

VmClose ==
    LET r == close_focused_viewport(viewports, focus_index)
    IN  /\ pc = "api"
        /\ viewports' = r.viewports
        /\ focus_index' = r.focus_index
        /\ pc' = IF r.panic THEN "panicked" ELSE pc
        /\ last_op' = "close_focused_viewport"
        /\ UNCHANGED next_id

VmNextTab ==
    /\ pc = "api"
    /\ \E r \in next_tab(viewports, focus_index) :
          /\ r.focus_index <= MaxFocus
          /\ focus_index' = r.focus_index
          /\ pc' = IF r.panic THEN "panicked" ELSE pc
    /\ last_op' = "next_tab"
    /\ UNCHANGED <<viewports, next_id>>

VmRest == UNCHANGED <<in_menu_mode, bar_selection_index, tk_stack, ctx, last_action,
                      owner, term_w, argv_file, terminal>>

VmNext ==
    \/ VmNewViewport /\ VmRest /\ VmFrame
    \/ VmFocusLast /\ VmRest /\ VmFrame
    \/ VmClose /\ VmRest /\ VmFrame
    \/ VmNextTab /\ VmRest /\ VmFrame

-----------------------------------------------------------------------------
(* main.rs: the main loop, with the take-over, the alert and the input     *)
(* dialog it calls. A step reads one input event in the loop that is       *)
(* blocked in event::read and runs the code up to the next read.           *)

\* The state of the thread as one record.
St ==
    [viewports |-> viewports, focus_index |-> focus_index, next_id |-> next_id,
     in_menu_mode |-> in_menu_mode, bar_selection_index |-> bar_selection_index,
     pc |-> pc, tk_stack |-> tk_stack, ctx |-> ctx,
     last_action |-> "none", last_op |-> "none",
     in_kind |-> in_kind, in_text |-> in_text, in_disabled |-> in_disabled]

\* The terminal widths of the model: every dialog fits in both, the titles of
\* MaxOpened Viewports do not fit in the narrow one.
TermWidths == {34, 80}

\* The characters typed at the main loop, the menus and the alert.
MainChars == {"f", "e", "h", "n", "o", "s", "a", "q", "u", "r", "x"}
MainKeys ==
    {Char(c) : c \in MainChars} \cup
    {ConfirmKey, CtrlQ, EscKey, BackspaceKey, TabKey, EnterKey, DeleteKey,
     UpKey, DownKey, LeftKey, RightKey, OtherEvent}

\* The events read by a dialog the main loop opened.
DialogKeys == {Char("a"), ConfirmKey, EscKey, BackspaceKey, OtherEvent}

\* main.rs:90-92, the top of the loop: with no Viewport open it is menu mode.
LoopTopKeepsMode(mode, vs) == mode
LoopTop(mode, vs) == IF vs = <<>> THEN TRUE ELSE mode

\* main.rs:177-179, after an action: with a Viewport open it is edit mode.
AfterActionKeepsMode(mode, vs) == mode
AfterAction(mode, vs) == IF vs # <<>> THEN FALSE ELSE mode

\* main.rs:89-121: from the top of the loop to the read. The render of the
\* ViewportManager may panic; no take-over and no dialog is open at the read.
ToRead(s) ==
    {[s EXCEPT !.in_menu_mode = LoopTop(s.in_menu_mode, s.viewports),
               !.pc = IF o = "ok" THEN "main_read" ELSE "panicked",
               !.tk_stack = <<>>, !.ctx = "none",
               !.in_kind = "Any", !.in_text = <<>>, !.in_disabled = FALSE]
       : o \in RenderOutcomes(s.viewports, s.focus_index, term_w)}

\* The end of the handling of action a (main.rs:177-179), then the loop.
Finish(s, a) ==
    ToRead([s EXCEPT !.in_menu_mode = AfterAction(s.in_menu_mode, s.viewports),
                     !.last_action = a])

Panicked(s) == {[s EXCEPT !.pc = "panicked"]}

\* A call of util::input, up to its first read.
OpenInput(s, initial_input, ty, c) ==
    {[s EXCEPT !.pc = "input", !.ctx = c, !.tk_stack = <<>>,
               !.in_kind = ty, !.in_text = initial_input,
               !.in_disabled = ButtonDisabled(ty, initial_input)]}

\* A call of util::alert, up to its first read.
OpenAlert(s, c) ==
    {[s EXCEPT !.pc = "alert", !.ctx = c, !.tk_stack = <<>>,
               !.in_kind = "Any", !.in_text = <<>>, !.in_disabled = FALSE]}

\* viewport_save_as: "./Untitled".to_owned()
SaveAsInitial == <<".", "/", "U", "n", "t", "i", "t", "l", "e", "d">>

\* main.rs:134-175, the match on the action a take-over returned. New is taken
\* below MaxOpened Viewports only.
Dispatch(s, a) ==
    CASE a = "Close" ->
            IF s.viewports = <<>>
            THEN {[s EXCEPT !.pc = "exited", !.tk_stack = <<>>, !.last_action = a]}
            ELSE LET r == close_focused_viewport(s.viewports, s.focus_index)
                 IN  IF r.panic THEN Panicked(s)
                     ELSE Finish([s EXCEPT !.viewports = r.viewports,
                                           !.focus_index = r.focus_index,
                                           !.last_op = "close_focused_viewport"], a)
      [] a = "New" ->
            IF s.next_id >= MaxOpened THEN {}
            ELSE LET vs == new_viewport(s.viewports, NewBufferViewport(s.next_id))
                 IN  Finish([s EXCEPT !.viewports = vs,
                                      !.focus_index = Len(vs) - 1,
                                      !.next_id = @ + 1,
                                      !.last_op = "new_viewport"], a)
      [] a = "Save" ->
            IF s.focus_index < Len(s.viewports)
            THEN LET v == s.viewports[s.focus_index + 1]
                 IN  IF v.modified
                     THEN IF v.path
                          THEN Finish([s EXCEPT !.viewports[s.focus_index + 1].modified = FALSE], a)
                          ELSE OpenInput(s, SaveAsInitial, "Any", a)
                     ELSE Finish(s, a)
            ELSE Finish(s, a)
      [] a = "SaveAs" ->
            IF s.focus_index < Len(s.viewports)
            THEN OpenInput(s, SaveAsInitial, "Any", a)
            ELSE Finish(s, a)
      [] a = "Open" -> OpenInput(s, <<>>, "Path", a)
      [] OTHER -> OpenAlert(s, a)

\* What follows the return of util::input in its caller: viewport_save_as
\* (main.rs:19-27) for Save and SaveAs, main.rs:162-171 for Open.
input_return(s, result) ==
    IF result = None THEN Finish(s, s.ctx)
    ELSE IF s.ctx = "Open"
    THEN IF PathIsFile(result[2])
         THEN IF s.next_id >= MaxOpened THEN {}
              ELSE UNION {Finish([s EXCEPT
                                    !.viewports = new_viewport(s.viewports,
                                                     FileBufferViewport(s.next_id, n)),
                                    !.next_id = @ + 1,
                                    !.last_op = "new_viewport"], s.ctx)
                          : n \in 0..MaxBufLen}
         ELSE OpenAlert(s, s.ctx)
    ELSE IF ~CanCreate(result[2]) THEN Panicked(s)
    ELSE Finish([s EXCEPT !.viewports[s.focus_index + 1] =
                              [@ EXCEPT !.cur = 0, !.modified = FALSE, !.path = TRUE]], s.ctx)

\* util::input on key k, in the main loop's thread.
input_key(s, k) ==
    LET r == input_on_key(s.in_text, s.in_disabled, k)
    IN  IF ~InputKeyOffered(s.in_text, s.in_disabled, k) THEN {}
        ELSE IF r.returned THEN input_return([s EXCEPT !.in_text = r.text], r.result)
        ELSE {[s EXCEPT !.in_text = r.text]}

\* What follows the return of util::alert in its caller: handle_key_event
\* returns to the loop; an action's handling ends.
alert_return(s) ==
    IF s.ctx = "key" THEN ToRead(s) ELSE Finish(s, s.ctx)

\* util::alert on key k (util.rs:137-142): Char('\n') ends it, any other event
\* is dropped.
AlertKeyLeaks(s, k) ==
    IF k = ConfirmKey THEN alert_return(s)
    ELSE {[s EXCEPT !.in_menu_mode = ~@]}
alert_key(s, k) ==
    IF k = ConfirmKey THEN alert_return(s) ELSE {s}

PopClosesChain(s) == ToRead([s EXCEPT !.tk_stack = <<>>])

\* `break None` in the innermost take-over: its caller goes on, the main loop
\* when it was the outermost.
PopTakeOver(s) ==
    IF Len(s.tk_stack) <= 1
    THEN ToRead([s EXCEPT !.tk_stack = <<>>])
    ELSE {[s EXCEPT !.tk_stack = SubSeq(@, 1, Len(@) - 1)]}

ActivateClosesOneLevel(s, i) ==
    LET d     == Len(s.tk_stack)
        child == s.tk_stack[d].menu.children[i + 1]
    IN  CASE child.kind = "Separator" -> Panicked(s)
          [] child.kind = "Action" -> PopTakeOver(s)
          [] OTHER -> {[s EXCEPT !.tk_stack = Append(@, [menu |-> child.action, sel |-> 0])]}

ActivateForgetsSelection(s, i) ==
    LET d     == Len(s.tk_stack)
        child == s.tk_stack[d].menu.children[i + 1]
    IN  CASE child.kind = "Separator" -> Panicked(s)
          [] child.kind = "Action" -> Dispatch(s, child.action)
          [] OTHER -> {[s EXCEPT !.tk_stack =
                           Append([@ EXCEPT ![d].sel = 0], [menu |-> child.action, sel |-> 0])]}

\* The child at index i of the innermost take-over is activated: an Action is
\* returned through every level to the main loop, a SubMenu takes over.
Activate(s, i) ==
    LET d     == Len(s.tk_stack)
        child == s.tk_stack[d].menu.children[i + 1]
    IN  CASE child.kind = "Separator" -> Panicked(s)      \* unreachable!()
          [] child.kind = "Action" -> Dispatch(s, child.action)
          [] OTHER -> {[s EXCEPT !.tk_stack = Append(@, [menu |-> child.action, sel |-> 0])]}

\* Menu::take_over on key k (menu.rs:169-214), the innermost call.
take_over_key(s, k) ==
    LET d    == Len(s.tk_stack)
        top  == s.tk_stack[d]
        sc   == MenuShortcut(top.menu, k[2])
    IN  IF k = UpKey
        THEN {[s EXCEPT !.tk_stack[d].sel = previous(KindsOf(top.menu), top.sel)]}
        ELSE IF k = DownKey
        THEN {[s EXCEPT !.tk_stack[d].sel = next(KindsOf(top.menu), top.sel)]}
        ELSE IF k = EnterKey
        THEN Activate(s, top.sel)
        ELSE IF k[1] = "Char"
        THEN IF sc = -2 THEN Panicked(s)
             ELSE IF sc = -1 THEN PopTakeOver(s)
             ELSE Activate([s EXCEPT !.tk_stack[d].sel = sc], sc)
        ELSE PopTakeOver(s)

MenuBarKeyRightStops(menus, sel, k) ==
    LET n == Len(menus)
    IN  IF k = RightKey
        THEN [selection_index |-> IF sel + 1 >= n THEN sel ELSE sel + 1, open |-> -1]
        ELSE IF k = LeftKey
        THEN [selection_index |-> IF sel - 1 < 0 THEN n - 1 ELSE sel - 1, open |-> -1]
        ELSE IF k = EnterKey
        THEN [selection_index |-> sel, open |-> sel]
        ELSE IF k[1] = "Char"
        THEN LET i == MenuBarShortcut(menus, k[2])
             IN  [selection_index |-> IF i >= 0 THEN i ELSE sel, open |-> i]
        ELSE [selection_index |-> sel, open |-> -1]

\* MenuBar::maybe_handle_key_press (menu.rs:107-130) of a bar of the given
\* menus: the selection index and the menu to open, -1 for None, -2 for a
\* panic.
MenuBarKey(menus, sel, k) ==
    LET n == Len(menus)
    IN  IF k = RightKey
        THEN [selection_index |-> IF sel + 1 >= n THEN 0 ELSE sel + 1, open |-> -1]
        ELSE IF k = LeftKey
        THEN [selection_index |-> IF sel - 1 < 0 THEN n - 1 ELSE sel - 1, open |-> -1]
        ELSE IF k = EnterKey
        THEN [selection_index |-> sel, open |-> sel]
        ELSE IF k[1] = "Char"
        THEN LET i == MenuBarShortcut(menus, k[2])
             IN  [selection_index |-> IF i >= 0 THEN i ELSE sel, open |-> i]
        ELSE [selection_index |-> sel, open |-> -1]

\* The same of the bar of main.rs.
menu_bar_key(sel, k) == MenuBarKey(MenuBarMenus, sel, k)

\* ViewportManager::handle_key_event (viewport.rs:280-297). A character is
\* typed below MaxBufLen only.
handle_key_event(s, k) ==
    IF s.viewports = <<>> THEN ToRead(s)
    ELSE IF s.focus_index >= Len(s.viewports) THEN Panicked(s)
    ELSE LET f == s.focus_index + 1
             v == s.viewports[f]
             r == close_focused_viewport(s.viewports, s.focus_index)
         IN  IF k = CtrlQ
             THEN ToRead([s EXCEPT !.viewports = r.viewports,
                                   !.focus_index = r.focus_index,
                                   !.last_op = "close_focused_viewport"])
             ELSE IF k[1] = "Char"
             THEN IF v.len >= MaxBufLen THEN {}
                  ELSE ToRead([s EXCEPT !.viewports[f] = insert(v)])
             ELSE IF k = BackspaceKey
             THEN UNION {ToRead([s EXCEPT !.viewports[f] = w]) : w \in backspace(v)}
             ELSE IF k = DeleteKey
             THEN UNION {ToRead([s EXCEPT !.viewports[f] = w]) : w \in delete(v)}
             ELSE IF k = LeftKey THEN ToRead([s EXCEPT !.viewports[f] = move_left(v)])
             ELSE IF k = RightKey THEN ToRead([s EXCEPT !.viewports[f] = move_right(v)])
             ELSE IF k \in {UpKey, DownKey} THEN ToRead(s)
             ELSE OpenAlert(s, "key")

QuitKeyInAnyMode(s, k) == k = CtrlQ

\* main.rs:123, the arm that breaks: Char('q') with CONTROL `if in_menu_mode`.
QuitKey(s, k) == k = CtrlQ /\ s.in_menu_mode

\* main.rs:121-184, the match on the event read by the main loop.
main_key(s, k) ==
    IF k = EscKey
    THEN ToRead([s EXCEPT !.in_menu_mode = ~@])
    ELSE IF QuitKey(s, k)
    THEN {[s EXCEPT !.pc = "exited"]}
    ELSE IF k = TabKey /\ s.in_menu_mode
    THEN UNION {IF r.panic THEN Panicked(s)
                ELSE ToRead([s EXCEPT !.focus_index = r.focus_index, !.last_op = "next_tab"])
                : r \in {x \in next_tab(s.viewports, s.focus_index) : x.focus_index <= MaxFocus}}
    ELSE IF k = OtherEvent
    THEN ToRead(s)
    ELSE IF ~s.in_menu_mode
    THEN handle_key_event(s, k)
    ELSE LET b == menu_bar_key(s.bar_selection_index, k)
         IN  IF b.open = -2 THEN Panicked(s)
             ELSE IF b.open = -1
             THEN ToRead([s EXCEPT !.bar_selection_index = b.selection_index])
             ELSE {[s EXCEPT !.bar_selection_index = b.selection_index,
                             !.pc = "take_over",
                             !.tk_stack = <<[menu |-> MenuBarMenus[b.open + 1], sel |-> 0]>>]}

\* The terminal as the process finds it, and what main.rs does to it: raw mode
\* and the alternate screen at the start (main.rs:33-34), the cursor hidden at
\* the top of the loop (main.rs:107) and shown by the render of a focused
\* Viewport (viewport.rs:113-125) and by input (util.rs:207).
TerminalAtLaunch == [raw_mode |-> FALSE, alternate_screen |-> FALSE, cursor_shown |-> TRUE]
enable_raw_mode(t) == [t EXCEPT !.raw_mode = TRUE]
EnterAlternateScreen(t) == [t EXCEPT !.alternate_screen = TRUE]
LeaveAlternateScreen(t) == [t EXCEPT !.alternate_screen = FALSE]
CursorShow(t) == [t EXCEPT !.cursor_shown = TRUE]
CursorHide(t) == [t EXCEPT !.cursor_shown = FALSE]

\* The terminal while the main loop runs, the cursor shown or not.
TerminalInLoop(shown) ==
    LET t == EnterAlternateScreen(enable_raw_mode(TerminalAtLaunch))
    IN  IF shown THEN CursorShow(t) ELSE CursorHide(t)

\* The terminal when the thread has become t: at a read of the main loop the
\* cursor is shown when a focused Viewport was rendered; input shows it; a
\* take-over and an alert leave it; a panic may come before or after it was
\* hidden or shown.
CursorAfter(term, t) ==
    IF t.pc = "main_read"
    THEN {IF t.viewports # <<>> /\ ~t.in_menu_mode THEN CursorShow(term) ELSE CursorHide(term)}
    ELSE IF t.pc = "input" THEN {CursorShow(term)}
    ELSE IF t.pc = "panicked" THEN {CursorShow(term), CursorHide(term)}
    ELSE {term}

\* The thread's state becomes t, the event was read by the loop at pc.
Becomes(t) ==
    /\ viewports' = t.viewports
    /\ focus_index' = t.focus_index
    /\ next_id' = t.next_id
    /\ in_menu_mode' = t.in_menu_mode
    /\ bar_selection_index' = t.bar_selection_index
    /\ pc' = t.pc
    /\ tk_stack' = t.tk_stack
    /\ ctx' = t.ctx
    /\ last_action' = t.last_action
    /\ last_op' = t.last_op
    /\ in_kind' = t.in_kind
    /\ in_text' = t.in_text
    /\ in_disabled' = t.in_disabled
    /\ owner' = pc
    /\ terminal' \in CursorAfter(terminal, t)
    /\ UNCHANGED <<term_w, argv_file, in_pc, in_result, in_key>>

MainKey(k) == pc = "main_read" /\ \E t \in main_key(St, k) : Becomes(t)
TakeOverKey(k) == pc = "take_over" /\ \E t \in take_over_key(St, k) : Becomes(t)
AlertKey(k) == pc = "alert" /\ \E t \in alert_key(St, k) : Becomes(t)
DialogKey(k) == pc = "input" /\ \E t \in input_key(St, k) : Becomes(t)

\* main.rs:187, what follows the loop: execute!(screen, cursor::RestorePosition,
\* terminal::LeaveAlternateScreen, cursor::Show).
MainExitCommands(t) == CursorShow(LeaveAlternateScreen(t))

\* The loop was left by `break`: main runs its last line and returns.
MainExit ==
    /\ pc = "exited"
    /\ pc' = "ended"
    /\ terminal' = MainExitCommands(terminal)
    /\ UNCHANGED <<viewports, focus_index, next_id, in_menu_mode, bar_selection_index,
                   tk_stack, ctx, last_action, last_op, owner, term_w, argv_file, inVars>>

MainNext ==
    \/ \E k \in MainKeys : MainKey(k) /\ MainFrame
    \/ \E k \in MainKeys : TakeOverKey(k) /\ MainFrame
    \/ \E k \in MainKeys : AlertKey(k) /\ MainFrame
    \/ \E k \in DialogKeys : DialogKey(k) /\ MainFrame
    \/ MainExit /\ MainFrame

-----------------------------------------------------------------------------
(* menu.rs: the menu bar under key events *)

\* The events the main loop hands to the bar in menu mode.
MenuBarKeys ==
    {Char(c) : c \in {"n", "N", "a", "x"}} \cup
    {RightKey, LeftKey, EnterKey, UpKey, BackspaceKey}

\* A bar of one to MaxItems menus, MenuBar { selection_index: 0, menus }.
MenuBarInit ==
    /\ call_name = "none"
    /\ \E bar \in MnemonicBars : call_args = <<bar.children, <<"none">>>>
    /\ call_result = <<>>

\* menu_bar.maybe_handle_key_press(k)
MenuBarRead(k) ==
    LET r == MenuBarKey(call_args[1], bar_selection_index, k)
    IN  /\ bar_selection_index' = r.selection_index
        /\ call_name' = "MenuBar::maybe_handle_key_press"
        /\ call_args' = <<call_args[1], k>>
        /\ call_result' = <<r.open>>
        /\ UNCHANGED <<viewports, focus_index, next_id, in_menu_mode, pc, tk_stack,
                       ctx, last_action, last_op, owner, term_w, argv_file, terminal>>

MenuBarNext ==
    \E k \in MenuBarKeys : MenuBarRead(k) /\ UNCHANGED <<rbVars, vpVars, mnVars, inVars>>

-----------------------------------------------------------------------------
(* menu.rs: Menu::take_over on menus with sub-menus *)

\* Menus nested three deep; the entry of a SubMenu holds its menu. Their
\* actions are shown by the main loop in an alert (main.rs:172-174).
DeepMenu ==
    [name |-> <<"_", "H">>,
     children |-> << Item(<<"_", "U">>, "Action", "Undo"),
                     SeparatorItem,
                     Item(<<"_", "R">>, "Action", "Redo") >>]
InnerMenu ==
    [name |-> <<"_", "E">>,
     children |-> << Item(<<"_", "A">>, "Action", "About"),
                     Item(<<"_", "H">>, "SubMenu", DeepMenu) >>]
OuterMenu ==
    [name |-> <<"_", "F">>,
     children |-> << Item(<<"_", "S">>, "Action", "Scripted"),
                     SeparatorItem,
                     Item(<<"_", "E">>, "SubMenu", InnerMenu),
                     Item(<<"_", "U">>, "Action", "Undo") >>]
OnlySubMenu ==
    [name |-> <<"_", "O">>,
     children |-> << Item(<<"_", "E">>, "SubMenu", InnerMenu) >>]
TakeOverMenus == <<OuterMenu, OnlySubMenu>>

\* The events read by the take-overs.
TakeOverKeys ==
    {Char(c) : c \in {"u", "r", "a", "h", "e", "s", "E", "x"}} \cup
    {UpKey, DownKey, EnterKey, EscKey, LeftKey, OtherEvent}

\* The main loop has called take_over on one of the menus (main.rs:128-132).
TakeOverInit ==
    /\ argv_file = FALSE
    /\ terminal = TerminalInLoop(FALSE)
    /\ term_w \in TermWidths
    /\ viewports = new_viewport(<<>>, NewBufferViewport(0))
    /\ focus_index = 0
    /\ next_id = 1
    /\ in_menu_mode = TRUE
    /\ bar_selection_index = 0
    /\ pc = "take_over"
    /\ \E i \in 1..Len(TakeOverMenus) :
          tk_stack = <<[menu |-> TakeOverMenus[i], sel |-> 0]>>
    /\ ctx = "none"
    /\ last_action = "none"
    /\ last_op = "none"
    /\ owner = "main_read"

\* What the outermost take_over gave its caller on the step to state t.
TakeOverResult(t) ==
    IF t.pc = "take_over" THEN <<"reading">>
    ELSE IF t.pc = "panicked" THEN <<"panic">>
    ELSE IF t.ctx # "none" THEN Some(t.ctx)
    ELSE IF t.last_action # "none" THEN Some(t.last_action)
    ELSE None

\* The innermost take-over reads key k.
TakeOverRead(k) ==
    /\ pc = "take_over"
    /\ \E t \in take_over_key(St, k) :
          /\ Becomes(t)
          /\ call_result' = TakeOverResult(t)
    /\ call_name' = "Menu::take_over"
    /\ call_args' = <<k>>

TakeOverNext ==
    \E k \in TakeOverKeys : TakeOverRead(k) /\ UNCHANGED <<rbVars, vpVars, mnVars>>

-----------------------------------------------------------------------------
(* util.rs: alert, as the main loop's thread calls it *)

\* The lists of Viewports open when an alert is called.
AlertViewports ==
    {<<>>,
     new_viewport(<<>>, NewBufferViewport(0)),
     new_viewport(new_viewport(<<>>, NewBufferViewport(0)), NewBufferViewport(1))}

\* The calls of alert: from handle_key_event on a key it does not know (edit
\* mode, viewport.rs:295), from the handling of an action (main.rs:173-174)
\* and from that of Open on a directory (main.rs:168).
AlertInit ==
    /\ argv_file = FALSE
    /\ term_w \in TermWidths
    /\ viewports \in AlertViewports
    /\ focus_index = 0
    /\ next_id = Len(viewports)
    /\ bar_selection_index = 0
    /\ pc = "alert"
    /\ tk_stack = <<>>
    /\ \/ ctx = "key" /\ viewports # <<>> /\ in_menu_mode = FALSE /\ owner = "main_read"
       \/ ctx \in {"About", "Undo"} /\ in_menu_mode = TRUE /\ owner = "take_over"
       \/ ctx = "Open" /\ in_menu_mode = TRUE /\ owner = "input"
    /\ terminal = TerminalInLoop(ctx \in {"key", "Open"})
    /\ last_action = "none"
    /\ last_op = "none"
    /\ call_name = "none"
    /\ call_args = <<>>
    /\ call_result = <<>>

\* The loop of alert reads event k (util.rs:137-142).
AlertRead(k) ==
    /\ AlertKey(k)
    /\ call_name' = "util::alert"
    /\ call_args' = <<k>>
    /\ call_result' = IF pc' = "alert" THEN <<"reading">> ELSE <<"returned">>

AlertNext ==
    \E k \in MainKeys : AlertRead(k) /\ UNCHANGED <<rbVars, vpVars, mnVars>>

-----------------------------------------------------------------------------
(* viewport.rs: ViewportManager::render, the tab strip *)

\* `let starting_x: u16 = v_origin.0 + (v_size.0/2 - total_len/2) as u16`
\* (viewport.rs:258). The usize subtraction underflows when half the titles
\* are wider than half the Viewport: a panic in a build with overflow checks;
\* without them the difference wraps, `as u16` keeps its low 16 bits and the
\* u16 sum wraps.
starting_x(v_origin, v_size, vs) ==
    LET half == v_size[1] \div 2
        tl   == TotalLen(vs) \div 2
    IN  IF half >= tl
        THEN {[panic |-> FALSE, x |-> v_origin[1] + (half - tl)]}
        ELSE {[panic |-> TRUE, x |-> 0],
              [panic |-> FALSE, x |-> (v_origin[1] + ((half - tl) % 65536)) % 65536]}

\* `starting_x + (i * (t.len() + 3)) as u16` (viewport.rs:261, 263): the
\* column of tab i, t being the title of tab i itself.
TabColumn(sx, vs, i) == (sx + ((i * (TitleLen(vs[i + 1]) + 3)) % 65536)) % 65536

\* The lists of Viewports the editor can have open: "Untitled" buffers, the
\* first one the file of the command line instead, any of them modified.
TabLists ==
    UNION {{[i \in 1..n |->
                [(IF i = 1 /\ f THEN FileBufferViewport(0, 0) ELSE NewBufferViewport(i - 1))
                    EXCEPT !.modified = ms[i]]] :
            f \in BOOLEAN, ms \in [1..n -> BOOLEAN]} : n \in 1..MaxTabs}

TabsInit ==
    /\ argv_file \in BOOLEAN
    /\ terminal = TerminalInLoop(FALSE)
    /\ term_w \in TermWidths
    /\ viewports \in {vs \in TabLists : (vs[1].title = ArgFileTitle) = argv_file}
    /\ focus_index \in 0..(Len(viewports) - 1)
    /\ next_id = Len(viewports)
    /\ in_menu_mode = FALSE
    /\ bar_selection_index = 0
    /\ pc = "api"
    /\ tk_stack = <<>>
    /\ ctx = "none"
    /\ last_action = "none"
    /\ last_op = "none"
    /\ owner = "none"
    /\ call_name = "none"
    /\ call_args = <<>>
    /\ call_result = [panic |-> FALSE, starting_x |-> 0, tabs |-> <<>>]

\* viewport_manager.render(..), up to the end of the tab strip: call_result
\* is whether it panicked, starting_x and the column each tab was drawn at.
TabsRender ==
    /\ call_name = "none"
    /\ \E sx \in starting_x(NewViewportOrigin, NewViewportSize(term_w, 0), viewports) :
          call_result' =
              [panic |-> sx.panic, starting_x |-> sx.x,
               tabs |-> IF sx.panic THEN <<>>
                        ELSE [k \in 1..Len(viewports) |-> TabColumn(sx.x, viewports, k - 1)]]
    /\ call_name' = "ViewportManager::render"
    /\ call_args' = <<focus_index>>

TabsNext == TabsRender /\ CallFrame

-----------------------------------------------------------------------------
(* viewport.rs: Viewport::save on one Viewport *)

\* The Viewports saved in the model: with and without a path, modified or not.
SaveViewports ==
    {[v EXCEPT !.modified = m, !.cur = c] :
        v \in {NewBufferViewport(0)} \cup {FileBufferViewport(0, n) : n \in 0..MaxBufLen},
        m \in BOOLEAN, c \in 0..MaxBufLen} \cap
    {v \in [id : {0}, title : {UntitledTitle, ArgFileTitle}, len : 0..MaxBufLen,
             cur : 0..MaxBufLen, modified : BOOLEAN, path : BOOLEAN] : v.cur <= v.len}

\* What a call of save has done so far: its value ("none" while it has not
\* returned), whether the file was written, how many input events it read.
SaveResult(value, written, events) == <<value, written, events>>

SaveInit ==
    /\ argv_file = FALSE
    /\ terminal = TerminalAtLaunch
    /\ term_w = 80
    /\ \E v \in SaveViewports : viewports = <<v>>
    /\ focus_index = 0
    /\ next_id = 1
    /\ in_menu_mode = FALSE
    /\ bar_selection_index = 0
    /\ pc = "api"
    /\ tk_stack = <<>>
    /\ ctx = "none"
    /\ last_action = "none"
    /\ last_op = "none"
    /\ owner = "none"
    /\ call_name = "none"
    /\ call_args = <<>>
    /\ call_result = SaveResult("none", FALSE, 0)

\* viewport.save() up to its return or to the first read of its alert
\* (viewport.rs:206-215). With a path it is scribe's Buffer::save, which
\* writes the file and clears the modified flag, or fails.
SaveCall ==
    /\ pc = "api"
    /\ call_name = "none"
    /\ call_name' = "Viewport::save"
    /\ call_args' = <<>>
    /\ IF viewports[1].path
       THEN /\ pc' = "returned"
            /\ \/ /\ viewports' = [viewports EXCEPT ![1].modified = FALSE]
                  /\ call_result' = SaveResult("Ok", TRUE, 0)
               \/ /\ viewports' = viewports
                  /\ call_result' = SaveResult("Err", FALSE, 0)
       ELSE /\ pc' = "alert"
            /\ viewports' = viewports
            /\ call_result' = SaveResult("none", FALSE, 0)
    /\ UNCHANGED <<focus_index, next_id, in_menu_mode, bar_selection_index, tk_stack,
                   ctx, last_action, last_op, owner, term_w, argv_file, terminal>>

\* The alert of save reads event k (util.rs:137-142); when it ends, save
\* returns Ok(()).
SaveAlertRead(k) ==
    /\ pc = "alert"
    /\ call_result[3] < MaxSaveReads
    /\ call_args' = <<k>>
    /\ IF k = ConfirmKey
       THEN pc' = "returned" /\ call_result' = SaveResult("Ok", FALSE, call_result[3] + 1)
       ELSE pc' = "alert" /\ call_result' = SaveResult("none", FALSE, call_result[3] + 1)
    /\ UNCHANGED <<viewports, focus_index, next_id, in_menu_mode, bar_selection_index,
                   tk_stack, ctx, last_action, last_op, owner, term_w, argv_file, terminal,
                   call_name>>

SaveNext ==
    \/ SaveCall /\ UNCHANGED <<rbVars, vpVars, mnVars, inVars>>
    \/ \E k \in MainKeys : SaveAlertRead(k) /\ UNCHANGED <<rbVars, vpVars, mnVars, inVars>>

-----------------------------------------------------------------------------
(* The specifications: one per component, the other groups idle *)

VpIdle ==
    /\ vp_origin = NewViewportOrigin
    /\ vp_size = <<0, 0>>
    /\ vp_svl = 0
    /\ vp_svc = 0
    /\ vp_line_count = 1
    /\ vp_cur = <<0, 0>>
    /\ vp_last = "idle"

MnIdle ==
    /\ mn_children = <<>>
    /\ mn_from = 0
    /\ mn_index = 0
    /\ mn_last = "idle"

InIdle ==
    /\ in_kind = "Any"
    /\ in_text = <<>>
    /\ in_disabled = FALSE
    /\ in_pc = "idle"
    /\ in_result = None
    /\ in_key = <<"none">>

MainIdle ==
    /\ viewports = <<>>
    /\ focus_index = 0
    /\ next_id = 0
    /\ in_menu_mode = FALSE
    /\ bar_selection_index = 0
    /\ pc = "idle"
    /\ tk_stack = <<>>
    /\ ctx = "none"
    /\ last_action = "none"
    /\ last_op = "none"
    /\ owner = "none"
    /\ term_w = 80
    /\ argv_file = FALSE
    /\ terminal = TerminalAtLaunch

CallIdle ==
    /\ call_name = "none"
    /\ call_args = <<>>
    /\ call_result = <<>>

\* The RenderBuffer under set_fg, set_bg, set_cell and render.
InitResize == ResizeInit /\ VpIdle /\ MnIdle /\ InIdle /\ MainIdle
SpecResize == InitResize /\ [][ResizeNext]_vars

InitTerminal == TtyInit /\ VpIdle /\ MnIdle /\ InIdle /\ MainIdle /\ CallIdle
SpecTerminal == InitTerminal /\ [][TtyNext]_vars

InitRender == RbInit /\ VpIdle /\ MnIdle /\ InIdle /\ MainIdle /\ CallIdle
SpecRender == InitRender /\ [][RbNext]_vars

\* One Viewport under cursor moves and render.
InitViewport == RbInit /\ VpInit /\ MnIdle /\ InIdle /\ MainIdle /\ CallIdle
SpecViewport == InitViewport /\ [][VpNext]_vars

\* One Viewport under cursor moves and recorded renders.
InitReconcile == RbInit /\ VpInit /\ MnIdle /\ InIdle /\ MainIdle /\ ReconcileInit
SpecReconcile == InitReconcile /\ [][ReconcileNext]_vars

\* One Viewport under cursor moves and renders recorded with the rows drawn.
InitRows == RbInit /\ VpInit /\ MnIdle /\ InIdle /\ MainIdle /\ RowsInit
SpecRows == InitRows /\ [][RowsNext]_vars

\* One render of the ViewportManager over a list of Viewports.
InitTabs == RbInit /\ VpIdle /\ MnIdle /\ InIdle /\ TabsInit
SpecTabs == InitTabs /\ [][TabsNext]_vars

\* One Viewport over a longer buffer, its renders recorded with the gutter.
InitGutter == RbInit /\ GutterInit /\ MnIdle /\ InIdle /\ MainIdle
SpecGutter == InitGutter /\ [][GutterNext]_vars

\* One take-over of a menu of any shape under Up, Down and Enter.
InitSelection == RbInit /\ VpIdle /\ SelectionInit /\ InIdle /\ MainIdle /\ CallIdle
SpecSelection == InitSelection /\ [][SelectionNext]_vars

\* One Menu under Up and Down, Menu::next and Menu::previous call by call. The
\* thread that is inside one of them keeps running.
InitSkip == RbInit /\ VpIdle /\ SkipInit /\ InIdle /\ MainIdle /\ CallIdle
SpecSkip ==
    InitSkip /\ [][SkipNext]_vars /\ WF_vars(NextStep /\ MnFrame) /\ WF_vars(PreviousStep /\ MnFrame)

\* One Menu under Up and Down.
InitMenuNav == RbInit /\ VpIdle /\ MnInit /\ InIdle /\ MainIdle /\ CallIdle
SpecMenuNav == InitMenuNav /\ [][MnNext]_vars

\* The ViewportManager under new_viewport, close_focused_viewport and next_tab.
InitVM ==
    /\ RbInit /\ VpIdle /\ MnIdle /\ InIdle /\ CallIdle
    /\ viewports = <<>>
    /\ focus_index = 0
    /\ next_id = 0
    /\ in_menu_mode = FALSE
    /\ bar_selection_index = 0
    /\ pc = "api"
    /\ tk_stack = <<>>
    /\ ctx = "none"
    /\ last_action = "none"
    /\ last_op = "none"
    /\ owner = "none"
    /\ term_w = 80
    /\ argv_file = FALSE
    /\ terminal = TerminalAtLaunch
SpecVM == InitVM /\ [][VmNext]_vars

\* The editor from its first read on: main.rs:38-53 and 87-121 have run. The
\* buffer is empty or, with a file argument, the file's.
InitMain ==
    /\ RbInit /\ VpIdle /\ MnIdle /\ InIdle /\ CallIdle
    /\ argv_file \in BOOLEAN
    /\ terminal = TerminalInLoop(TRUE)
    /\ term_w \in TermWidths
    /\ \E n \in 0..MaxBufLen :
          viewports = new_viewport(<<>>, IF argv_file THEN FileBufferViewport(0, n)
                                                      ELSE NewBufferViewport(0))
    /\ focus_index = 0
    /\ next_id = 1
    /\ in_menu_mode = LoopTop(FALSE, viewports)
    /\ bar_selection_index = 0
    /\ pc = "main_read"
    /\ tk_stack = <<>>
    /\ ctx = "none"
    /\ last_action = "none"
    /\ last_op = "none"
    /\ owner = "none"
SpecMain == InitMain /\ [][MainNext]_vars

\* Mnemonic resolution, called on menus and menu bars.
InitMnemonic == RbInit /\ VpIdle /\ MnIdle /\ InIdle /\ MainIdle /\ MnemonicInit
SpecMnemonic == InitMnemonic /\ [][MnemonicNext]_vars

\* One Grid under set, get and get_mut.
InitGrid == RbInit /\ VpIdle /\ MnIdle /\ InIdle /\ MainIdle /\ GridInit
SpecGrid == InitGrid /\ [][GridNext]_vars

\* Viewport::vertical_scroll_percent on one Viewport.
InitScroll == RbInit /\ ScrollInit /\ MnIdle /\ InIdle /\ MainIdle
SpecScroll == InitScroll /\ [][ScrollNext]_vars

\* One render of the scrollbar of a Viewport.
InitScrollbar == RbInit /\ ScrollbarInit /\ MnIdle /\ InIdle /\ MainIdle
SpecScrollbar == InitScrollbar /\ [][ScrollbarNext]_vars

\* A MenuBar under key events.
InitMenuBar == RbInit /\ VpIdle /\ MnIdle /\ InIdle /\ MainIdle /\ MenuBarInit
SpecMenuBar == InitMenuBar /\ [][MenuBarNext]_vars

\* Menu::take_over, called by the main loop, under key events.
InitTakeOver == RbInit /\ VpIdle /\ MnIdle /\ InIdle /\ CallIdle /\ TakeOverInit
SpecTakeOver == InitTakeOver /\ [][TakeOverNext]_vars

\* One call of alert under input events.
InitAlert == RbInit /\ VpIdle /\ MnIdle /\ InIdle /\ AlertInit
SpecAlert == InitAlert /\ [][AlertNext]_vars

\* One call of Viewport::save.
InitSave == RbInit /\ VpIdle /\ MnIdle /\ InIdle /\ SaveInit
SpecSave == InitSave /\ [][SaveNext]_vars

\* One call of Viewport::backspace on a buffer of several lines.
InitBackspace == RbInit /\ VpIdle /\ MnIdle /\ InIdle /\ MainIdle /\ BackspaceInit
SpecBackspace == InitBackspace /\ [][BackspaceNext]_vars

\* One call of input under key events.
InitInput == RbInit /\ VpIdle /\ MnIdle /\ InInit /\ MainIdle /\ CallIdle
SpecInput == InitInput /\ [][InNext]_vars

-----------------------------------------------------------------------------
(* The properties *)

\* C1: a render pass pushes a character for exactly the positions whose back
\* cell (character, fg, bg) differs from the front cell as it was before the
\* pass: one character per differing position, none for an equal one.
C1_RenderDiffExact ==
    [][rb_rendered' =>
        /\ rb_emitted' = DiffPositions(rb_front, rb_back)
        /\ Len(PutsOf(rb_out')) = Cardinality(DiffPositions(rb_front, rb_back))]_vars

\* C1 witness: a pass that wrote some cells and left others alone.
C1_Witness ==
    /\ rb_rendered
    /\ rb_emitted # {}
    /\ Cardinality(rb_emitted) < GridW * GridH
    /\ Len(PutsOf(rb_out)) = Cardinality(rb_emitted)

\* C2: after a render pass front equals back at every position, and a render
\* that directly follows a render returns the empty instruction stream.
C2_RenderCommitIdempotent ==
    [][rb_rendered' =>
        /\ rb_front' = rb_back'
        /\ (rb_rendered => rb_out' = <<>> /\ rb_emitted' = {})]_vars

\* C2 witness: a pass with an empty stream over a back grid that has been
\* drawn on, so an earlier pass committed it.
C2_Witness ==
    /\ rb_rendered
    /\ rb_out = <<>>
    /\ rb_back # GridNew(GridW, GridH)
    /\ rb_front = rb_back

\* C3: after the reconciliation of a focused render the cursor line L is in
\* the window: starting_visible_line <= L < starting_visible_line + H, both for
\* H the Viewport's height size.1 and for H the size.1 - 1 lines that are drawn.
C3_CursorInView ==
    vp_last = "render_focused" =>
        /\ vp_svl <= vp_cur[1]
        /\ vp_cur[1] < vp_svl + vp_size[2]
        /\ vp_cur[1] < vp_svl + (vp_size[2] - 1)

\* C3 witness: a focused render that left the window scrolled down with the
\* cursor on its last line within the budget.
C3_Witness ==
    /\ vp_last = "render_focused"
    /\ vp_svl > 0
    /\ vp_cur[1] = vp_svl + VerticalBudget(vp_size, vp_origin)

\* The first index that is no separator, going cyclically forward (dir = 1) or
\* backward (dir = -1) from index from.
FirstNonSeparator(children, from, dir) ==
    LET n == Len(children)
        at(k) == (from + dir * k + n * n) % n
        k0 == CHOOSE k \in 1..n :
                  /\ ~IsSeparator(children, at(k))
                  /\ \A j \in 1..(k - 1) : IsSeparator(children, at(j))
    IN  at(k0)

\* C4: next and previous return the first index that is no separator
\* cyclically after, respectively before, the index given.
C4_SeparatorSkipping ==
    /\ mn_last = "next" =>
          /\ mn_index \in 0..(Len(mn_children) - 1)
          /\ ~IsSeparator(mn_children, mn_index)
          /\ mn_index = FirstNonSeparator(mn_children, mn_from, 1)
    /\ mn_last = "previous" =>
          /\ mn_index \in 0..(Len(mn_children) - 1)
          /\ ~IsSeparator(mn_children, mn_index)
          /\ mn_index = FirstNonSeparator(mn_children, mn_from, -1)

\* C4 witness: the 5-item menu whose item 2 is a separator, next(1) = 3.
C4_Witness ==
    /\ mn_last = "next"
    /\ Len(mn_children) = 5
    /\ \A i \in 0..4 : IsSeparator(mn_children, i) <=> i = 2
    /\ mn_from = 1
    /\ mn_index = 3

\* C5: close_focused_viewport on an empty list changes neither the list nor
\* focus_index; on a list with a focused entry it removes that entry alone,
\* keeps the others in their order, and focus_index becomes focus_index - 1
\* when it was above 0 and stays 0 otherwise.
C5_CloseFocused ==
    [][last_op' = "close_focused_viewport" =>
        /\ viewports = <<>> => (viewports' = <<>> /\ focus_index' = focus_index)
        /\ (viewports # <<>> /\ focus_index < Len(viewports)) =>
              /\ Len(viewports') = Len(viewports) - 1
              /\ \A i \in 1..Len(viewports') :
                    viewports'[i] = viewports[IF i <= focus_index THEN i ELSE i + 1]
              /\ focus_index' = (IF focus_index > 0 THEN focus_index - 1 ELSE 0)
              /\ pc' = pc]_vars

\* C5 witness: the middle one of three Viewports was closed, the first and the
\* last are left in their order and the focus is on the first.
C5_Witness ==
    /\ last_op = "close_focused_viewport"
    /\ pc = "api"
    /\ Len(viewports) = 2
    /\ viewports[1].id = 0
    /\ viewports[2].id = 2
    /\ focus_index = 0

\* C6, as the specification states it: in a Path dialog whose text names no existing entry, the
\* confirm key is a no-op: the dialog does not return and the text is unchanged.
C6_ConfirmDisabledIsNoOp ==
    [][(/\ in_pc = "reading"
        /\ in_kind = "Path"
        /\ ~PathExists(in_text)
        /\ in_key' = ConfirmKey)
       => (in_pc' = "reading" /\ in_text' = in_text)]_vars

\* C7, as the specification states it: in a Path dialog, once the text names an existing entry the
\* confirm key returns Some(current text).
C7_ConfirmEnabledOnceValid ==
    [][(/\ in_pc = "reading"
        /\ in_kind = "Path"
        /\ PathExists(in_text)
        /\ in_key' = ConfirmKey)
       => (in_pc' = "returned" /\ in_result' = Some(in_text))]_vars

\* C8: when the handling of an action that a take-over returned has ended, the
\* mode at the next read of the main loop is edit mode if a Viewport is open
\* and menu mode if none is; a take-over that ends without an action leaves
\* the mode as it was.
C8_ModeAfterAction ==
    [][(/\ (pc' = "main_read" /\ last_action' # "none") =>
              (in_menu_mode' <=> viewports' = <<>>)
        /\ (pc = "take_over" /\ pc' = "main_read" /\ last_action' = "none") =>
              in_menu_mode' = in_menu_mode)]_vars

\* C8 witness: Save as, chosen in menu mode and confirmed in its dialog, has
\* ended: the buffer has a path and the main loop reads in edit mode.
C8_Witness ==
    /\ pc = "main_read"
    /\ last_action = "SaveAs"
    /\ owner = "input"
    /\ viewports # <<>>
    /\ viewports[focus_index + 1].path
    /\ ~in_menu_mode

\* C9: started without a file argument, the editor is at its first read with
\* exactly one Viewport, over an empty unmodified buffer, titled "Untitled",
\* focus_index 0, in edit mode; and at every read of the main loop an empty
\* viewport list implies menu mode.
C9_StartAndStickyMenuMode ==
    /\ (owner = "none" /\ ~argv_file) =>
          /\ pc = "main_read"
          /\ Len(viewports) = 1
          /\ viewports[1].len = 0
          /\ ~viewports[1].modified
          /\ viewports[1].title = <<"U", "n", "t", "i", "t", "l", "e", "d">>
          /\ focus_index = 0
          /\ ~in_menu_mode
    /\ (pc = "main_read" /\ viewports = <<>>) => in_menu_mode

\* C9 witness: the editor was started without a file argument, its Viewport
\* has been closed, and the main loop has read a key with nothing open and is
\* at its read again, in menu mode.
C9_Witness ==
    /\ ~argv_file
    /\ pc = "main_read"
    /\ viewports = <<>>
    /\ owner = "main_read"
    /\ last_op = "none"
    /\ in_menu_mode

\* C10: an event read while an alert, an input dialog or a take-over is active
\* is read by that loop, and as long as the loop has not returned the viewport
\* list with its buffers and cursors, focus_index, the menu bar's selection
\* and the mode are unchanged.
C10_ModalOwnsInput ==
    [][(pc = "alert" \/ pc = "input" \/ pc = "take_over") =>
          (/\ owner' = pc
           /\ (pc' = pc) => (/\ viewports' = viewports
                             /\ focus_index' = focus_index
                             /\ bar_selection_index' = bar_selection_index
                             /\ in_menu_mode' = in_menu_mode))]_vars

\* C10 witness: an alert raised by a key in edit mode has read an event and is
\* still open, with text in the focused buffer.
C10_Witness ==
    /\ pc = "alert"
    /\ owner = "alert"
    /\ ctx = "key"
    /\ ~in_menu_mode
    /\ viewports[focus_index + 1].len > 0

\* The letter after the first marker of a name, and equality of two characters
\* ignoring case.
MnemonicOf(name) ==
    name[(CHOOSE i \in 1..Len(name) : name[i] = "_" /\ \A j \in 1..(i - 1) : name[j] # "_") + 1]
SameIgnoringCase(a, b) ==
    \/ a = b
    \/ \E i \in 1..Len(UpperCase) :
          {a, b} = {UpperCase[i], LowerCase[i]}
CaseSwap(c) ==
    IF \E i \in 1..Len(UpperCase) : UpperCase[i] = c
    THEN LowerCase[CHOOSE i \in 1..Len(UpperCase) : UpperCase[i] = c]
    ELSE IF \E i \in 1..Len(LowerCase) : LowerCase[i] = c
    THEN UpperCase[CHOOSE i \in 1..Len(LowerCase) : LowerCase[i] = c]
    ELSE c
\* The first of the entries, separators left out when skip holds, whose
\* mnemonic is key ignoring case; -1 when there is none.
FirstMnemonicMatch(entries, skip, key) ==
    LET Matches(i) ==
            /\ ~(skip /\ entries[i + 1].kind = "Separator")
            /\ SameIgnoringCase(MnemonicOf(entries[i + 1].name), key)
    IN  IF \E i \in 0..(Len(entries) - 1) : Matches(i)
        THEN CHOOSE i \in 0..(Len(entries) - 1) : Matches(i) /\ \A j \in 0..(i - 1) : ~Matches(j)
        ELSE -1

\* C11: on the menu bar and in a menu a character key resolves to the first
\* entry (separators skipped in a menu) whose mnemonic equals the key ignoring
\* case, and to no entry when there is none; the key in the other case
\* resolves to the same entry.
C11_MnemonicIgnoresCase ==
    /\ call_name = "Menu::maybe_handle_key_press" =>
          /\ call_result = FirstMnemonicMatch(call_args[1].children, TRUE, call_args[2])
          /\ call_result = MenuShortcut(call_args[1], CaseSwap(call_args[2]))
    /\ call_name = "MenuBar::maybe_handle_key_press" =>
          /\ call_result = FirstMnemonicMatch(call_args[1].children, FALSE, call_args[2])
          /\ call_result = MenuBarShortcut(call_args[1].children, CaseSwap(call_args[2]))

\* C11 witness: the key "n" in a menu whose first entry is a separator named
\* "_N" and whose second entry is the action "_N": the action is resolved.
C11_Witness ==
    /\ call_name = "Menu::maybe_handle_key_press"
    /\ call_args[2] = "n"
    /\ Len(call_args[1].children) >= 2
    /\ call_args[1].children[1] = Item(<<"_", "N">>, "Separator", "none")
    /\ call_args[1].children[2] = Item(<<"_", "N">>, "Action", "New")
    /\ call_result = 1

\* What the innermost take-over of the stack stk resolves key k to: the index
\* of the entry an Enter or a mnemonic activates, -1 when k activates none.
ActivatedEntry(stk, k) ==
    LET top == stk[Len(stk)]
    IN  IF k = EnterKey THEN top.sel
        ELSE IF k[1] = "Char" /\ Len(k) = 2
        THEN FirstMnemonicMatch(top.menu.children, TRUE, k[2])
        ELSE -1

\* C12: at any nesting depth of take_over, Enter on a selected Action entry, or
\* a character that resolves to a non-separator Action entry, ends the whole
\* take-over: no level keeps reading and the outermost call returns the action
\* of that entry.
C12_ActionEndsTakeOver ==
    [][\A k \in TakeOverKeys :
         (/\ pc = "take_over"
          /\ call_args' = <<k>>
          /\ ActivatedEntry(tk_stack, k) >= 0
          /\ tk_stack[Len(tk_stack)].menu.children[ActivatedEntry(tk_stack, k) + 1].kind = "Action")
         => (/\ pc' # "take_over"
             /\ tk_stack' = <<>>
             /\ call_result' =
                  Some(tk_stack[Len(tk_stack)].menu.children[ActivatedEntry(tk_stack, k) + 1].action))]_vars

\* An action reached three levels deep has been returned to the main loop.
C12_Witness ==
    /\ call_name = "Menu::take_over"
    /\ call_args = <<Char("r")>>
    /\ call_result = Some("Redo")
    /\ tk_stack = <<>>
    /\ pc = "alert"
\* Key k makes the innermost take-over of the stack stk return no action: it
\* is not Up, Down or Enter and no mnemonic of the innermost menu.
ClosingKey(stk, k) ==
    /\ k \notin {UpKey, DownKey, EnterKey}
    /\ ActivatedEntry(stk, k) = -1

\* C13: when the take-over of a sub-menu returns without an action, only that
\* innermost level is left: the parent keeps reading, every outer level keeps
\* its menu and its selection, and the parent's selection is on the entry of
\* the sub-menu that was left.
C13_SubMenuCancelKeepsParent ==
    [][\A k \in TakeOverKeys :
         (/\ pc = "take_over"
          /\ call_args' = <<k>>
          /\ Len(tk_stack) >= 2
          /\ ClosingKey(tk_stack, k))
         => (/\ pc' = "take_over"
             /\ call_result' = <<"reading">>
             /\ Len(tk_stack') = Len(tk_stack) - 1
             /\ \A i \in 1..Len(tk_stack') :
                   /\ tk_stack'[i].sel = tk_stack[i].sel
                   /\ tk_stack'[i].menu.name = tk_stack[i].menu.name
             /\ LET parent == tk_stack'[Len(tk_stack')]
                     entry  == parent.menu.children[parent.sel + 1]
                IN  /\ entry.kind = "SubMenu"
                    /\ entry.action.name = tk_stack[Len(tk_stack)].menu.name)]_vars

\* The deepest menu was left with Escape: its parent reads on, its selection on
\* the entry of the deepest menu.
C13_Witness ==
    /\ call_name = "Menu::take_over"
    /\ call_args = <<EscKey>>
    /\ call_result = <<"reading">>
    /\ pc = "take_over"
    /\ Len(tk_stack) = 2
    /\ tk_stack[2].menu.name = InnerMenu.name
    /\ tk_stack[2].sel = 1

\* C14, as the specification states it: a key that is not Up, Down, Enter or a
\* mnemonic of the innermost menu closes the whole chain of menus, and the
\* outermost take-over returns no action.
C14_OtherKeyClosesChain ==
    [][\A k \in TakeOverKeys :
         (/\ pc = "take_over"
          /\ call_args' = <<k>>
          /\ ClosingKey(tk_stack, k))
         => (/\ pc' # "take_over"
             /\ tk_stack' = <<>>
             /\ call_result' = None)]_vars

\* C14, as the code has it: such a key closes the innermost menu only. The
\* take-over ends with no action when that menu is the outermost one; a
\* parent menu reads on otherwise.
C14_OtherKeyClosesInnermost ==
    [][\A k \in TakeOverKeys :
         (/\ pc = "take_over"
          /\ call_args' = <<k>>
          /\ ClosingKey(tk_stack, k))
         => IF Len(tk_stack) = 1
            THEN /\ pc' = "main_read"
                 /\ tk_stack' = <<>>
                 /\ call_result' = None
            ELSE /\ pc' = "take_over"
                 /\ tk_stack' = SubSeq(tk_stack, 1, Len(tk_stack) - 1)
                 /\ call_result' = <<"reading">>]_vars

\* An unknown character was typed in a sub-menu: its parent is still open.
C14_Witness ==
    /\ call_name = "Menu::take_over"
    /\ call_args = <<Char("x")>>
    /\ call_result = <<"reading">>
    /\ pc = "take_over"
    /\ Len(tk_stack) = 1
    /\ tk_stack[1].menu.name = OuterMenu.name
    /\ tk_stack[1].sel = 2
\* C15: on the menu bar Right moves the selection forward by one and from the
\* last menu to 0, Left moves it back by one and from 0 to the last menu, the
\* selection is always below the number of menus, and a menu index is returned
\* by Enter (the selection) or by a character that is the mnemonic of a menu
\* (the first such menu, which is selected) and by no other key, which leaves
\* the selection where it was.
C15_MenuBarNavigation ==
    /\ [](bar_selection_index < Len(call_args[1]))
    /\ [][\A k \in MenuBarKeys :
            call_args' = <<call_args[1], k>> =>
              LET n   == Len(call_args[1])
                  sel == bar_selection_index
                  hit == IF k[1] = "Char"
                         THEN FirstMnemonicMatch(call_args[1], FALSE, k[2])
                         ELSE -1
              IN  CASE k = RightKey ->
                         /\ bar_selection_index' = (sel + 1) % n
                         /\ call_result' = <<-1>>
                    [] k = LeftKey ->
                         /\ bar_selection_index' = (sel + n - 1) % n
                         /\ call_result' = <<-1>>
                    [] k = EnterKey ->
                         /\ bar_selection_index' = sel
                         /\ call_result' = <<sel>>
                    [] hit >= 0 ->
                         /\ bar_selection_index' = hit
                         /\ call_result' = <<hit>>
                    [] OTHER ->
                         /\ bar_selection_index' = sel
                         /\ call_result' = <<-1>>]_vars

\* Right on the last of three menus has wrapped the selection to 0.
C15_Witness ==
    /\ call_name = "MenuBar::maybe_handle_key_press"
    /\ Len(call_args[1]) = 3
    /\ call_args[2] = RightKey
    /\ bar_selection_index = 0
    /\ call_result = <<-1>>
\* The last line of the buffer is one of the lines Viewport::render draws: the
\* window is not empty and ends at or after the last line.
LastLineVisible(svl, line_count, size) ==
    /\ svl <= line_count - 1
    /\ line_count - 1 < svl + WindowLen(svl, line_count, size)

\* C16: for a buffer of one line or more, the value vertical_scroll_percent
\* returns is at least 0 and at most 1, and it is exactly 1 whenever the last
\* line of the buffer is inside the window that is drawn; where
\* starting_visible_line + height - 1 is defined, the value is the ratio
\* min(1, (starting_visible_line + height - 1) / lines).
C16_ScrollPercentRange ==
    (call_name = "Viewport::vertical_scroll_percent" /\ call_result[1] = "ratio")
    => LET n == call_result[2]
           d == call_result[3]
           e == vp_svl + vp_size[2] - 1
       IN  /\ d > 0
           /\ 0 <= n /\ n <= d
           /\ e >= 0 => IF e >= vp_line_count THEN n = d
                                              ELSE n * vp_line_count = e * d
           /\ LastLineVisible(vp_svl, vp_line_count, vp_size) => n = d

\* The window ends exactly on the last line and the value is 1; and a value
\* strictly between 0 and 1 is returned too.
C16_Witness ==
    /\ call_name = "Viewport::vertical_scroll_percent"
    /\ call_result = <<"ratio", 1, 1>>
    /\ vp_svl = 1
    /\ vp_line_count = 3
    /\ vp_size[2] = 3
    /\ LastLineVisible(vp_svl, vp_line_count, vp_size)
\* C17, as the specification states it: at every position outside the bounds
\* of the Grid, set leaves every cell and the size as they were, get returns
\* the default Cell, and no addressing operation (set, get, get_mut) panics.
C17_OutOfBoundsNeverPanics ==
    [][\A x \in 0..GridW, y \in 0..GridH :
         (call_args' = <<x, y>> /\ (x >= GridW \/ y >= GridH))
         => (/\ call_name' = "Grid::set" =>
                   (rb_back' = rb_back /\ DOMAIN rb_back' = DOMAIN rb_back)
             /\ call_name' = "Grid::get" => call_result' = <<"cell", DefaultCell>>
             /\ call_result'[1] # "panic")]_vars
C19_InputTextEditing ==
    [][in_pc = "reading" =>
         CASE in_key' = EscKey ->
                  in_pc' = "returned" /\ in_result' = None
           [] in_key' = ConfirmKey /\ in_kind = "Any" ->
                  in_pc' = "returned" /\ in_result' = Some(in_text)
           [] in_key' \in {Char(c) : c \in InputChars} ->
                  in_pc' = "reading" /\ in_text' = Append(in_text, in_key'[2])
           [] in_key' = BackspaceKey ->
                  /\ in_pc' = "reading"
                  /\ in_text' = (IF in_text = <<>> THEN <<>>
                                 ELSE SubSeq(in_text, 1, Len(in_text) - 1))
           [] OTHER ->
                  in_pc' = "reading" => in_text' = in_text]_vars
\* C20, as the specification states it: alert blocks until the Enter key is
\* read. Every other input event is discarded, the dialog stays open and no
\* state of the program changes; the first Enter key press dismisses the
\* dialog, which returns to its caller.
C20_EnterDismissesAlert ==
    [][(pc = "alert" /\ call_name' = "util::alert")
       => IF call_args' = <<EnterKey>>
          THEN pc' # "alert" /\ call_result' = <<"returned">>
          ELSE /\ pc' = "alert"
               /\ call_result' = <<"reading">>
               /\ UNCHANGED <<viewports, focus_index, next_id, in_menu_mode,
                              bar_selection_index, tk_stack, ctx>>]_vars
\* C21, as the specification states it: save on a Viewport whose buffer has no
\* path is a no-op that returns success. The call returns Ok at once, the
\* Viewport and its buffer are as before, nothing is written, and no input
\* event is read.
C21_SaveWithoutPathIsNoOp ==
    [][(pc = "api" /\ call_name' = "Viewport::save" /\ ~viewports[1].path)
       => (/\ pc' = "returned"
           /\ call_result' = SaveResult("Ok", FALSE, 0)
           /\ viewports' = viewports)]_vars
\* C22, as the specification states it: whenever the main loop has been left
\* (Ctrl+q in menu mode, Close with no Viewport open) and main has ended, the
\* terminal is restored: the cursor is shown, the alternate screen is left
\* and raw mode is disabled.
C22_ExitRestoresTerminal ==
    pc = "ended" =>
        /\ terminal.cursor_shown
        /\ ~terminal.alternate_screen
        /\ ~terminal.raw_mode
\* C23, as the specification states it: a dialog confirmed with an invalid
\* path is never fatal. When the Save As dialog holds a path that names a
\* directory, or the Open dialog a path that is no regular file, the step
\* that ends the dialog neither panics nor leaves the main loop, and the list
\* of Viewports and the focus are as before.
C23_InvalidPathNotFatal ==
    [][(/\ pc = "input"
        /\ pc' # "input"
        /\ \/ ctx \in {"Save", "SaveAs"} /\ IsDirPath(in_text)
           \/ ctx = "Open" /\ ~PathIsFile(in_text))
       => (/\ pc' \notin {"panicked", "exited", "ended"}
           /\ viewports' = viewports
           /\ focus_index' = focus_index)]_vars
\* C24: backspace with the cursor at column 0 of a line l > 0 moves the cursor
\* to the end of line l - 1 and requests one delete: lines l - 1 and l are
\* merged, the other lines are as before, and the cursor is at the join. With
\* the cursor at column c > 0 it moves the cursor to column c - 1 of the same
\* line and requests one delete, which removes the character that was before
\* the cursor.
C24_BackspaceMergesOrRemoves ==
    call_name = "Viewport::backspace" =>
        LET b  == call_args
            r  == call_result
            l  == b.line + 1
        IN  /\ (b.offset = 0 /\ b.line > 0) =>
                  /\ r.deletes = 1
                  /\ r.line = b.line - 1
                  /\ r.offset = Len(b.lines[l - 1])
                  /\ Len(r.lines) = Len(b.lines) - 1
                  /\ \A i \in 1..Len(r.lines) :
                        r.lines[i] = IF i < l - 1 THEN b.lines[i]
                                     ELSE IF i = l - 1 THEN b.lines[l - 1] \o b.lines[l]
                                     ELSE b.lines[i + 1]
            /\ b.offset > 0 =>
                  /\ r.deletes = 1
                  /\ r.line = b.line
                  /\ r.offset = b.offset - 1
                  /\ Len(r.lines) = Len(b.lines)
                  /\ \A i \in 1..Len(r.lines) :
                        r.lines[i] = IF i = l THEN RemoveChar(b.lines[l], b.offset)
                                     ELSE b.lines[i]

\* The second of three lines was joined to the first, longer one: the cursor
\* is at the join.
C24_Witness ==
    /\ call_name = "Viewport::backspace"
    /\ call_args = BufferOf(<<<<"a", "b">>, <<"b">>, <<"a">>>>, 1, 0)
    /\ call_result = [lines |-> <<<<"a", "b", "b">>, <<"a">>>>, line |-> 0, offset |-> 2,
                      deletes |-> 1]
\* C25: when the terminal shows the front grid, whatever its cursor, after one
\* render pass it shows the back grid at every position; and the stream has a
\* cursor move for every emitted cell that does not follow, on the same row,
\* the cell emitted just before it in the pass.
C25_ReplayShowsBack ==
    [][(rb_rendered' /\ tty.display = rb_front) =>
        /\ tty'.display = rb_back'
        /\ Len(GotosOf(rb_out')) >= Cardinality(NeedGoto(rb_emitted', TtyW))]_vars

\* C26: in every render pass the terminal writes each emitted character in
\* the foreground and background of its back cell.
C26_NoColourLeak ==
    [][rb_rendered' =>
        WrittenColours(tty, rb_out') =
            [i \in 1..Cardinality(rb_emitted') |->
                LET p == RowMajor(rb_emitted', TtyW)[i]
                    b == GridGet(rb_back', TtyW, TtyH, p[1], p[2])
                IN  <<b[2], b[3]>>]]_vars
\* C27: after Grid::resize(new_size) the grid has exactly w * h cells of the
\* new size; a position inside both the old and the new bounds holds the cell
\* it held before, a position inside the new bounds only holds the default
\* cell.
C27_ResizeKeepsPositions ==
    call_name = "Grid::resize" =>
        LET old == call_result
            new == rb_back
            ow  == old.size[1]
            oh  == old.size[2]
            nw  == new.size[1]
            nh  == new.size[2]
        IN  /\ new.size = call_args
            /\ Cardinality(DOMAIN new.cells) = nw * nh
            /\ \A x \in 0..(nw - 1), y \in 0..(nh - 1) :
                  GridGet(new.cells, nw, nh, x, y) =
                      IF x < ow /\ y < oh THEN GridGet(old.cells, ow, oh, x, y)
                      ELSE DefaultCell
\* C28: a focused render with the cursor line L above the window sets
\* starting_visible_line to exactly L, and neither unsigned subtraction of
\* that branch goes below zero, L = 0 under a non-zero offset included; with L
\* below the bottom visible line the offset advances by exactly the overshoot;
\* with L inside the window the offset is unchanged.
C28_MinimalScroll ==
    vp_last = "render_focused" =>
        LET svl    == call_args[1]
            L      == call_args[2]
            bottom == BottomVisibleLine(svl, vp_size)
        IN  /\ L < svl =>
                  /\ vp_svl = L
                  /\ call_result[1] >= 0 /\ call_result[2] >= 0
            /\ L > bottom => vp_svl = svl + (L - bottom)
            /\ (svl <= L /\ L <= bottom) => vp_svl = svl

\* A focused render that started with the cursor on line 0 under an offset of
\* two or more lines and left the offset at 0.
C28_Witness ==
    /\ vp_last = "render_focused"
    /\ call_args[1] >= 2 /\ call_args[2] = 0
    /\ vp_svl = 0
\* C29: in a menu with a child that is no separator, from every index, a call
\* of Menu::next or Menu::previous returns, so take_over gets to its next
\* read; in a menu whose children are all separators the call never returns.
C29_SkipTerminates ==
    /\ (InSkip /\ (\E i \in 1..Len(mn_children) : mn_children[i] # "Separator"))
           ~> (mn_last = "next" \/ mn_last = "previous")
    /\ []((InSkip /\ (\A i \in 1..Len(mn_children) : mn_children[i] = "Separator"))
           => []InSkip)

\* Menu::next returned after it went from the last child over the end and
\* passed two separators at the head of the menu.
C29_Witness ==
    /\ mn_last = "next"
    /\ Len(mn_children) >= 4
    /\ mn_from = Len(mn_children) - 1
    /\ mn_children[1] = "Separator" /\ mn_children[2] = "Separator"
    /\ mn_index = 2
\* C30: at every scroll offset the gutter width Viewport::render uses is the
\* number of decimal digits of the highest buffer line number, from 1, in the
\* window: of starting_visible_line + the number of lines of the window.
C30_GutterWidth ==
    call_name = "Viewport::render" =>
        call_result = to_string_len(call_args[1] + call_args[2])
\* C31: while the editor runs, after any events and actions, focus_index is
\* below the number of Viewports when there is one and 0 when there is none;
\* Tab in menu mode with no Viewport open leaves it at 0.
C31_FocusValid ==
    (pc # "panicked") =>
        /\ viewports # <<>> => focus_index < Len(viewports)
        /\ viewports = <<>> => focus_index = 0
\* C32: whatever starting_visible_line is, Viewport::render draws the i-th
\* line of the window, i from 0, on the terminal row origin.y + i, and no row
\* computation underflows.
C32_RowPlacement ==
    call_name = "Viewport::render" =>
        /\ vp_last # "panic"
        /\ Len(call_result) = call_args[2]
        /\ \A i \in 0..(call_args[2] - 1) : call_result[i + 1] = vp_origin[2] + i
\* C33: backspace with the cursor at line 0, column 0 changes nothing: the
\* lines of the buffer and the cursor are as before, whatever the buffer holds.
C33_BackspaceAtStartIsNoOp ==
    (call_name = "Viewport::backspace" /\ call_args.line = 0 /\ call_args.offset = 0) =>
        /\ call_result.lines = call_args.lines
        /\ call_result.line = 0
        /\ call_result.offset = 0
\* C34: when the tab strip fits, tab i starts at starting_x plus the sum over
\* the tabs j before it of (length of title j + 3), whatever the titles, and
\* the columns of two tabs (a title and the two characters around it) do not
\* overlap.
C34_TabLayout ==
    (/\ call_name = "ViewportManager::render"
     /\ TotalLen(viewports) \div 2 <= NewViewportSize(term_w, 0)[1] \div 2) =>
        /\ ~call_result.panic
        /\ \A i \in 1..Len(viewports) :
              call_result.tabs[i] = call_result.starting_x + TotalLen(SubSeq(viewports, 1, i - 1))
        /\ \A i, j \in 1..Len(viewports) :
              i < j => call_result.tabs[i] + TitleLen(viewports[i]) + 2 <= call_result.tabs[j]

\* C35: with any number of "Untitled" Viewports open, as New creates them,
\* the render does not panic and starting_x is v_origin.x + v_size.w / 2 -
\* total_len / 2 without an underflow.
C35_TabStripStart ==
    (/\ call_name = "ViewportManager::render"
     /\ \A i \in 1..Len(viewports) : viewports[i] = NewBufferViewport(i - 1)) =>
        /\ ~call_result.panic
        /\ TotalLen(viewports) \div 2 <= NewViewportSize(term_w, 0)[1] \div 2
        /\ call_result.starting_x =
              NewViewportOrigin[1] + NewViewportSize(term_w, 0)[1] \div 2
                                   - TotalLen(viewports) \div 2
\* C36: for a Viewport at least 2 rows high over a buffer of at least one
\* line, at every scroll offset, the thumb of the scrollbar is between 1 and
\* v_size.h - 1 rows high and every row it is drawn on is a row of the
\* Viewport: its first row is not above v_origin.y and its end is not below
\* v_origin.y + v_size.h.
C36_ScrollbarContained ==
    call_name = "ViewportManager::render" =>
        /\ ~call_result.panic
        /\ 1 <= call_result.height /\ call_result.height <= vp_size[2] - 1
        /\ call_result.row >= vp_origin[2]
        /\ call_result.row + call_result.height <= vp_origin[2] + vp_size[2]
\* C37: the main loop is left by `break` only when it reads Ctrl+q in menu
\* mode or when a menu yields Close while no Viewport is open: no other event
\* read by the loop breaks it, Ctrl+q in edit mode does not, and a step that
\* closes the last Viewport, by Close or by Ctrl+q in edit mode, ends at the
\* next read of the loop, in menu mode.
C37_ExitConditions ==
    /\ [](pc = "main_read" =>
            /\ \A k \in MainKeys \ {CtrlQ} : \A t \in main_key(St, k) : t.pc # "exited"
            /\ ~in_menu_mode => \A t \in main_key(St, CtrlQ) : t.pc # "exited")
    /\ [][(pc' = "exited" /\ pc # "exited") =>
            \/ pc = "main_read" /\ in_menu_mode
            \/ pc = "take_over" /\ last_action' = "Close" /\ viewports = <<>>]_vars
    /\ [][(last_op' = "close_focused_viewport" /\ viewports' = <<>>) =>
            (pc' = "main_read" /\ in_menu_mode')]_vars

\* The loop was left by the Close action of a menu with no Viewport open,
\* after the last Viewport had been closed.
C37_Witness ==
    /\ pc = "exited"
    /\ last_action = "Close"
    /\ owner = "take_over"
    /\ viewports = <<>>
\* C38: in a menu with a child that is no separator, at every read of
\* take_over, the first one included, the selection index is in range and the
\* entry selected is no separator; Enter is never handled with the selection
\* on a separator.
C38_SelectionValid ==
    /\ mn_last # "panic"
    /\ AtRead =>
          /\ mn_index >= 0 /\ mn_index < Len(mn_children)
          /\ ~IsSeparator(mn_children, mn_index)
====
